---- MODULE Spec2Model ----
(***************************************************************************)
(* Vetis: listener runtime, virtual-host registry, per-host routing and    *)
(* the static-file engine, modelled from the Rust sources.                 *)
(*                                                                         *)
(* The module holds several specifications over one set of variables:      *)
(*   SpecRoute    VirtualHost::add_path / VirtualHost::route               *)
(*   SpecService  the per-connection service function and the registry     *)
(*   Spec         the server facade, its listeners, their accept loops and *)
(*                the connections they serve                               *)
(*   SpecStatic   StaticPath: the descriptor cache and serve_file          *)
(*   SpecHandle   StaticPath::handle: auth, index files, HEAD, Range, and  *)
(*                what the connection makes of the handler's result        *)
(*   SpecLock     the registry's RwLock: request tasks against a task      *)
(*                calling add_virtual_host                                 *)
(*   SpecRegistry sequences of add_virtual_host calls                      *)
(*   SpecCache    the LruCache of a StaticPath under cache_file            *)
(*   SpecEvict    cache_file against the descriptor table and the          *)
(*                duplicates held by responses                             *)
(*   SpecWsgi     WsgiWorker::handle over WSGI applications                *)
(*   SpecProxy    ProxyPath::handle against an upstream                    *)
(*   SpecTls      TlsFactory::create_tls_config and a listener's start     *)
(*   SpecBuild    VirtualHostConfigBuilder: setters and build              *)
(*   SpecPeek     the TLS/cleartext classifier of the TCP accept loop      *)
(*   SpecWorker   one WsgiWorker across requests: environ, start_response  *)
(*   SpecH3       the worker of one HTTP/3 request stream                  *)
(*   SpecSni      a listener's TLS configuration against later additions   *)
(* Each specification drives its own group of variables and leaves the     *)
(* other groups at their initial value.                                    *)
(***************************************************************************)
EXTENDS Integers, Sequences, FiniteSets, TLC

VARIABLES
    \* ---- VirtualHost under test (vetis/src/server/virtual_host.rs) ----
    paths,        \* VirtualHost.paths : HashMap<String, HostPath>
    route_req,    \* URI path of the last request handed to route, or NoReq
    route_resp,   \* what that route call resolved to
    \* ---- registry and service function (src/server/conn/{tcp,udp}/http.rs) ----
    virtual_hosts, \* VetisVirtualHosts: the shared registry
    svc_conn,     \* the connection the last request arrived on
    svc_req,      \* the last request given to the service function
    svc_resp,     \* its response
    \* ---- facade and listeners (vetis/src/server/http.rs, src/server/conn) ----
    config,       \* ServerConfig.listeners
    listeners,    \* HttpServer.listeners of the facade: the stored listeners
    task,         \* per listener: HttpServer.task is Some
    loop,         \* per listener: where its accept loop (the server task) is
    tls_config,   \* per listener: host names its TLS acceptor has a certificate for
    conns,        \* client connections
    facade,       \* "new", "started" or "stopped": the last start/stop that returned Ok
    \* ---- static files (vetis/src/server/virtual_host/path/static_files) ----
    fd_table,     \* the process's descriptor table: descriptor -> open file description
    ofd,          \* open file descriptions: the object opened and the read position
    file_cache,   \* StaticPath.file_cache : LruCache<String, RawFd>
    sockets,      \* descriptors owned by accepted connections
    resps,        \* responses of serve_file and their bodies being streamed
    \* ---- StaticPath::handle ----
    site,         \* the files that exist under the static directory
    static_config, \* StaticPathConfig: index_files, auth
    h_req,        \* the last request given to handle
    h_resp,       \* what the connection got for it
    \* ---- registry lock (VetisVirtualHosts = Arc<VetisRwLock<HashMap>>) ----
    lock,         \* the registry's RwLock: tasks holding a read guard, write guard held
    reqs,         \* per request task: where it is in the service function
    adder,        \* the task calling add_virtual_host
    added,        \* history: the virtual hosts given to add_virtual_host, in order
    \* ---- LruCache of a StaticPath ----
    lru,          \* keys of file_cache, most recently used first
    lru_cap,      \* the capacity file_cache was built with
    lru_req,      \* the last path given to cache_file and how it went
    \* ---- path kinds and builders, each called on its own ----
    wsgi,         \* WsgiWorker::handle: the application called and the result
    proxy,        \* ProxyPath::handle: path, request, upstream and the result
    tlsf,         \* TlsFactory::create_tls_config and the TCP listener calling it
    vhc,          \* VirtualHostConfigBuilder: its fields, the disk, build's result
    peek,         \* the classifier: bytes arrived on a new connection, its verdict
    worker,       \* one WsgiWorker: its environ dict and the requests it is handling
    h3,           \* the worker of one HTTP/3 request stream
    op            \* the last operation performed: its name, listener, connection

routeVars == <<paths, route_req, route_resp>>
serviceVars == <<virtual_hosts, svc_conn, svc_req, svc_resp>>
serviceObs == <<svc_conn, svc_req, svc_resp>>
serverVars == <<config, listeners, task, loop, tls_config, conns, facade>>
staticVars == <<fd_table, ofd, file_cache, sockets, resps>>
handleVars == <<site, static_config, h_req, h_resp>>
lockVars == <<lock, reqs, adder>>
registryVars == <<added>>
cacheVars == <<lru, lru_cap, lru_req>>
ifaceVars == <<wsgi, proxy, tlsf, vhc, peek, worker, h3>>
vars == <<paths, route_req, route_resp, virtual_hosts, svc_conn, svc_req, svc_resp,
          config, listeners, task, loop, tls_config, conns, facade,
          fd_table, ofd, file_cache, sockets, resps,
          site, static_config, h_req, h_resp,
          lock, reqs, adder, added, lru, lru_cap, lru_req,
          wsgi, proxy, tlsf, vhc, peek, worker, h3, op>>

(***************************************************************************)
(* Bounds                                                                  *)
(***************************************************************************)
MaxPathLen == 2      \* longest URI path, in characters
MaxPaths == 2        \* number of paths registered in one virtual host
MaxHosts == 2        \* number of virtual hosts in the registry
MaxConns == 2        \* client connections alive at the same time
MaxFd == 3           \* descriptors the process can hold
MaxResps == 2        \* static-file responses in flight at the same time
MaxRange == 3        \* largest byte position named in a Range header
MaxReqs == 2         \* request tasks inside the service function at the same time
MaxAdds == 4         \* add_virtual_host calls in one history
MaxCapacity == 3     \* largest capacity an LruCache is built with

(***************************************************************************)
(* Values                                                                  *)
(***************************************************************************)
NoReq == <<>>
None == "None"
\* The last operation: name, the listener / connection it acted on (0: none),
\* and a detail of its outcome.
Op(n) == [name |-> n, l |-> 0, c |-> 0, info |-> ""]
OpOn(n, l, c) == [name |-> n, l |-> l, c |-> c, info |-> ""]
OpInfo(n, l, info) == [name |-> n, l |-> l, c |-> 0, info |-> info]
\* "no response yet": a record, like every response.
NoResp == [ok |-> FALSE, status |-> 0, body |-> "", handler |-> None]

\* URI paths are sequences of characters, so that "is a prefix of" and
\* "equals" are different relations.
PathChars == {"/", "a"}

RECURSIVE SeqsUpTo(_, _)
SeqsUpTo(S, n) ==
    IF n = 0 THEN {<<>>}
    ELSE LET shorter == SeqsUpTo(S, n - 1)
         IN  shorter \cup {Append(s, c) : s \in {t \in shorter : Len(t) = n - 1}, c \in S}

\* HandlerPathBuilder::build rejects the empty URI.
Uris == {u \in SeqsUpTo(PathChars, MaxPathLen) : Len(u) >= 1}

\* http::Uri::path() of a request always starts with "/".
ReqPaths == {u \in Uris : u[1] = "/"}

IsPrefix(u, p) == Len(u) <= Len(p) /\ SubSeq(p, 1, Len(u)) = u

(***************************************************************************)
(* Handlers: opaque user closures Request -> Result<Response, VetisError>. *)
(***************************************************************************)
Handlers == {"h1", "h2", "herr"}

HandlerResult(h) ==
    CASE h = "h1"   -> [ok |-> TRUE,  status |-> 200, body |-> "h1",  handler |-> h]
      [] h = "h2"   -> [ok |-> TRUE,  status |-> 201, body |-> "h2",  handler |-> h]
      [] h = "herr" -> [ok |-> FALSE, status |-> 0,   body |-> "Handler error", handler |-> h]

\* HandlerPath::handle: calls the stored closure with the request.
HandlerPath_handle(h) == HandlerResult(h)

\* The Ok(404 "Not Found") of VirtualHost::route.
RouteNotFound == [ok |-> TRUE, status |-> 404, body |-> "Not Found", handler |-> None]

(***************************************************************************)
(* VirtualHost                                                             *)
(***************************************************************************)
EmptyPaths == [u \in {} |-> "h1"]

\* VirtualHost::add_path: HashMap::insert keyed by the path's URI.
add_path(ps, uri, h) == [u \in (DOMAIN ps) \cup {uri} |-> IF u = uri THEN h ELSE ps[u]]

\* VirtualHost::route with the None arm returning an error instead of the
\* Ok(404) response.
route_NoMatchErr(ps, P) ==
    IF P \in DOMAIN ps THEN HandlerPath_handle(ps[P])
    ELSE [ok |-> FALSE, status |-> 0, body |-> "Not Found", handler |-> None]

\* VirtualHost::route: exact HashMap lookup of the request's URI path.
route(ps, P) ==
    IF P \in DOMAIN ps THEN HandlerPath_handle(ps[P]) ELSE RouteNotFound

(***************************************************************************)
(* Registry and service function                                           *)
(***************************************************************************)
Some(x) == [some |-> TRUE, val |-> x]
NoneStr == [some |-> FALSE, val |-> ""]

HostNames == {"a.test", "b.test"}
Ports == {8080, 8443}

NoKey == <<"", 0>>

\* Every virtual host of the model serves "/" with one handler, as the
\* hosts built in the tests do.
RootPaths == (<<"/">> :> "h1")

\* VirtualHost: config (hostname, port, security) and paths.
VirtualHosts ==
    [hostname : HostNames, port : Ports, secure : BOOLEAN, paths : {RootPaths}]

\* The registry is keyed by (hostname, port).
EmptyRegistry == [k \in {} |-> CHOOSE vh \in VirtualHosts : TRUE]

\* add_virtual_host over a registry keyed by the hostname alone: the entry
\* replaces every entry of that hostname.
add_virtual_host_ByHostname(reg, vh) ==
    LET key == <<vh.hostname, vh.port>>
        kept == {k \in DOMAIN reg : k[1] # vh.hostname}
    IN  [k \in kept \cup {key} |-> IF k = key THEN vh ELSE reg[k]]

\* Vetis::add_virtual_host: insert (hostname, port) -> vh under the write lock.
add_virtual_host(reg, vh) ==
    LET key == <<vh.hostname, vh.port>>
    IN  [k \in (DOMAIN reg) \cup {key} |-> IF k = key THEN vh ELSE reg[k]]

\* The text of a URI authority or Host header: host name as the client wrote
\* it, optionally followed by ":port" (port 0 stands for "no port given").
AuthorityHosts == {"a.test", "A.TEST", "b.test"}
Authorities ==
    [host : AuthorityHosts, port : {0}] \cup {[host |-> "a.test", port |-> 8080]}

\* Display for http::uri::Authority / HeaderValue::to_str: the text as sent.
authority_to_string(a) ==
    IF a.port = 0 THEN a.host ELSE a.host \o ":" \o ToString(a.port)

AuthorityTexts == {authority_to_string(a) : a \in Authorities}
HostHeaderTexts == {authority_to_string(a) : a \in [host : HostNames, port : {0}]}

\* A request as the codec hands it to the service function.
Requests ==
    [uri_authority : {NoneStr} \cup {Some(t) : t \in AuthorityTexts},
     host_header   : {NoneStr} \cup {Some(t) : t \in HostHeaderTexts},
     path          : {<<"/">>}]

NoRequest == [uri_authority |-> NoneStr, host_header |-> NoneStr, path |-> <<>>]

\* A connection: the transport and bound port of its listener, and the SNI
\* server name when it went through a TLS handshake.
NoConn == [transport |-> "", port |-> 0, tls |-> FALSE, sni |-> ""]

\* Names a TLS handshake can complete for: hosts that carry a certificate.
SecureNames(reg) == {k[1] : k \in {j \in DOMAIN reg : reg[j].secure}}

Connections(reg) ==
    [transport : {"tcp"}, port : Ports, tls : {FALSE}, sni : {""}]
    \cup [transport : {"tcp", "udp"}, port : Ports, tls : {TRUE}, sni : SecureNames(reg)]

NoSvcResp == [ok |-> FALSE, status |-> 0, body |-> "", handler |-> None, served_by |-> NoKey]

HostNotFound ==
    [ok |-> TRUE, status |-> 404, body |-> "Virtual host not found",
     handler |-> None, served_by |-> NoKey]

HostHeaderMissing ==
    [ok |-> TRUE, status |-> 400, body |-> "Host header not found in request",
     handler |-> None, served_by |-> NoKey]

\* virtual_hosts.get(&host.to_string()): the lookup is by the host text alone;
\* the port the listener is bound to is not part of it.
registry_get(reg, text) == {k \in DOMAIN reg : k[1] = text}

\* virtual_host.execute(req): the host routes the request.
execute(reg, k, req) ==
    LET r == route(reg[k].paths, req.path)
    IN  [ok |-> r.ok, status |-> r.status, body |-> r.body,
         handler |-> r.handler, served_by |-> k]

\* The host text the service function looks up: the URI authority on TCP
\* (tcp/http.rs:238-240), the Host header on HTTP/3 (udp/http.rs:183-185).
lookup_host(conn, req) ==
    IF conn.transport = "tcp" THEN req.uri_authority ELSE req.host_header

\* ServerHandler::handle, the service function: the set of responses it can
\* give (one per registry entry the lookup text matches).
service_fn(reg, conn, req) ==
    LET host == lookup_host(conn, req)
    IN  IF ~host.some THEN {HostHeaderMissing}
        ELSE IF registry_get(reg, host.val) = {} THEN {HostNotFound}
        ELSE {execute(reg, k, req) : k \in registry_get(reg, host.val)}

IdleService ==
    /\ virtual_hosts = EmptyRegistry
    /\ svc_conn = NoConn
    /\ svc_req = NoRequest
    /\ svc_resp = NoSvcResp

(***************************************************************************)
(* Facade, listeners, accept loops                                         *)
(***************************************************************************)
MaxListeners == 2     \* listeners in one configuration
ListenerIds == 1..MaxListeners

\* A ListenerConfig and the accept loop that drives it:
\*   "conn_tcp"   HttpServer of src/server/conn/tcp/http.rs
\*   "server_tcp" TcpServer::handle_connections of src/server/tcp.rs
\*   "conn_udp"   HttpServer of src/server/conn/udp/http.rs
Listener(d, p, tls) == [driver |-> d, port |-> p, tls_acceptor |-> tls]

\* The configurations the facade is built with: the TCP and QUIC listeners
\* of src/server/conn on one port number, and a listener of src/server/tcp.rs
\* with and without a TLS acceptor.
Configs ==
    { <<Listener("conn_tcp", 8080, TRUE), Listener("conn_udp", 8080, TRUE)>>,
      <<Listener("server_tcp", 8080, TRUE)>>,
      <<Listener("server_tcp", 8080, FALSE)>> }

Transport(d) == IF d = "conn_udp" THEN "udp" ELSE "tcp"

\* The registry the facade is started with (hosts are added before start):
\* a cleartext host and a host with a security block, both on port 8080.
HostA == [hostname |-> "a.test", port |-> 8080, secure |-> FALSE, paths |-> RootPaths]
HostB == [hostname |-> "b.test", port |-> 8080, secure |-> TRUE, paths |-> RootPaths]
StartRegistry == add_virtual_host(add_virtual_host(EmptyRegistry, HostA), HostB)

\* Accept loop positions.
LoopOff == [st |-> "off", c |-> 0]          \* no server task (not spawned, or cancelled)
LoopAccept == [st |-> "accept", c |-> 0]    \* awaiting listener.accept()
LoopDead == [st |-> "dead", c |-> 0]        \* the server task panicked
Live(lp) == lp.st \in {"accept", "peek", "handshake"}

\* What a client does with a new connection:
\*   "clear"  sends a cleartext HTTP/1.1 request
\*   "tls"    sends a TLS ClientHello with server name sni
\*   "short"  has sent fewer bytes than the classifier peeks
SniNames == {"a.test", "b.test"}
Clients == [kind : {"clear", "short"}, sni : {""}] \cup [kind : {"tls"}, sni : SniNames]

\* The first two bytes of what the client sends.
FirstBytes(kind) == IF kind = "tls" THEN <<22, 3>> ELSE <<71, 69>>

\* peeked.starts_with(&[0x16, 0x03])
is_tls(bytes) == bytes[1] = 22 /\ bytes[2] = 3

IdleConn == [st |-> "idle", l |-> 0, kind |-> "", sni |-> "", tls |-> FALSE,
             req |-> NoRequest, resp |-> NoSvcResp]
ConnIds == 1..MaxConns

\* Requests sent on served connections, for a.test on port 8080: in origin
\* form with a Host header (what an HTTP/1.1 client sends) and in absolute
\* form.
ServerRequests ==
    { [uri_authority |-> NoneStr, host_header |-> Some("a.test"), path |-> <<"/">>],
      [uri_authority |-> Some("a.test"), host_header |-> NoneStr, path |-> <<"/">>] }

\* The handler of a listener driven by src/server/tcp.rs: an opaque Service.
generic_handler == [ok |-> TRUE, status |-> 200, body |-> "h1", handler |-> "h1",
                    served_by |-> NoKey]

IdleServer ==
    /\ config = <<>>
    /\ listeners = <<>>
    /\ task = [i \in ListenerIds |-> FALSE]
    /\ loop = [i \in ListenerIds |-> LoopOff]
    /\ tls_config = [i \in ListenerIds |-> {}]
    /\ conns = [c \in ConnIds |-> IdleConn]
    /\ facade = "new"

\* ---- the spawn gate ----
\* Cancelling a gate aborts its server task (the listener socket goes with
\* it) and every worker spawned under it.
gate_cancel_loop(lp) == LoopOff
\* Connections in the hands of a worker task: a QUIC handshake being
\* awaited, or a codec serving requests.
WorkerStates == {"worker_handshake", "serving"}
\* A cancel that aborts the server task and leaves its workers running.
gate_cancel_conns_ServerOnly(cs, i) ==
    [c \in ConnIds |->
        IF cs[c].l = i /\ cs[c].st \notin WorkerStates THEN IdleConn ELSE cs[c]]
gate_cancel_conns(cs, i) == [c \in ConnIds |-> IF cs[c].l = i THEN IdleConn ELSE cs[c]]

\* When a server task ends (panic), its socket is closed: connections still
\* in the backlog or inside the loop are reset; workers already spawned go on.
server_task_ended(cs, i) ==
    [c \in ConnIds |->
        IF cs[c].l = i /\ cs[c].st \in {"queued", "inloop"} THEN IdleConn ELSE cs[c]]

\* ---- listener start / stop ----
\* The ports this process holds, per transport.
Held(i) == Live(loop[i])
PortTaken(tr, p) ==
    \E j \in 1..Len(config) :
        Held(j) /\ Transport(config[j].driver) = tr /\ config[j].port = p

\* HttpServer::start of one listener: bind, build the TLS configuration, spawn
\* the accept loop.  It fails with Bind when the address is in use.
listen_ok(i, busy) ==
    /\ <<Transport(config[i].driver), config[i].port>> \notin busy
    /\ ~PortTaken(Transport(config[i].driver), config[i].port)
    /\ \A j \in 1..(i - 1) :
          ~(/\ Transport(config[j].driver) = Transport(config[i].driver)
            /\ config[j].port = config[i].port)

\* HttpServer::stop of one listener: task.take() and cancel.
HttpServer_stop_NoCancel(lp) == lp
HttpServer_stop(lp) == gate_cancel_loop(lp)

\* A start that stores the listeners it had started when one fails.
Start_StoreStarted ==
    \E busy \in {{}} \cup {{<<Transport(config[i].driver), config[i].port>>} :
                                i \in 1..Len(config)} :
        IF \A i \in 1..Len(config) : listen_ok(i, busy)
        THEN /\ listeners' = [i \in 1..Len(config) |-> i]
             /\ task' = [i \in ListenerIds |-> i <= Len(config)]
             /\ loop' = [i \in ListenerIds |-> IF i <= Len(config) THEN LoopAccept ELSE LoopOff]
             /\ tls_config' = [i \in ListenerIds |->
                                 IF i <= Len(config) THEN SecureNames(virtual_hosts) ELSE {}]
             /\ facade' = "started"
             /\ conns' = [c \in ConnIds |-> IdleConn]
             /\ op' = OpInfo("start_ok", 0,
                              IF facade = "stopped" /\ listeners # <<>>
                              THEN "rebind" ELSE "bind")
             /\ UNCHANGED config
        ELSE LET i == CHOOSE k \in 1..Len(config) :
                            /\ ~listen_ok(k, busy)
                            /\ \A j \in 1..(k - 1) : listen_ok(j, busy)
                 e == <<Transport(config[i].driver), config[i].port>>
             IN  /\ op' = OpInfo("start_err", i,
                                 IF e \in busy THEN "in use: other process"
                                 ELSE "in use: this process")
                 /\ listeners' = [j \in 1..(i - 1) |-> j]
                 /\ UNCHANGED <<config, task, loop, tls_config, conns, facade>>


\* ---- facade ----
\* HttpServer::start: one listener per ListenerConfig, listen() on each in
\* order, `?` on the first error; the stored list is replaced on success.
\* The listeners of a failed start are local to the call and dropped with
\* it, and those a successful start replaces are dropped too: a dropped
\* listener owns its gate, so its task and socket go with it.
Start ==
    \E busy \in {{}} \cup {{<<Transport(config[i].driver), config[i].port>>} :
                                i \in 1..Len(config)} :
        IF \A i \in 1..Len(config) : listen_ok(i, busy)
        THEN /\ listeners' = [i \in 1..Len(config) |-> i]
             /\ task' = [i \in ListenerIds |-> i <= Len(config)]
             /\ loop' = [i \in ListenerIds |-> IF i <= Len(config) THEN LoopAccept ELSE LoopOff]
             /\ tls_config' = [i \in ListenerIds |->
                                 IF i <= Len(config) THEN SecureNames(virtual_hosts) ELSE {}]
             /\ facade' = "started"
             /\ conns' = [c \in ConnIds |-> IdleConn]
             /\ op' = OpInfo("start_ok", 0,
                              IF facade = "stopped" /\ listeners # <<>>
                              THEN "rebind" ELSE "bind")
             /\ UNCHANGED config
        ELSE /\ LET i == CHOOSE k \in 1..Len(config) :
                               /\ ~listen_ok(k, busy)
                               /\ \A j \in 1..(k - 1) : listen_ok(j, busy)
                    e == <<Transport(config[i].driver), config[i].port>>
                IN  op' = OpInfo("start_err", i,
                                 IF e \in busy THEN "in use: other process"
                                 ELSE "in use: this process")
             /\ UNCHANGED serverVars

\* A stop whose listeners keep their task handle instead of taking it.
Stop_KeepTask ==
    LET stored == {listeners[k] : k \in 1..Len(listeners)}
        cancelled == {i \in stored : task[i]}
    IN  /\ loop' = [i \in ListenerIds |->
                       IF i \in cancelled THEN HttpServer_stop(loop[i]) ELSE loop[i]]
        /\ conns' = [c \in ConnIds |->
                       IF conns[c].l \in cancelled
                       THEN gate_cancel_conns(conns, conns[c].l)[c] ELSE conns[c]]
        /\ facade' = "stopped"
        /\ op' = OpInfo("stop", 0,
                         IF facade = "stopped" THEN "again"
                         ELSE IF \E c \in ConnIds : /\ conns[c].l \in cancelled
                                                    /\ conns[c].st \in WorkerStates
                              THEN "workers" ELSE "")
        /\ UNCHANGED <<config, listeners, task, tls_config>>

\* HttpServer::stop: stop() on every stored listener.
Stop ==
    LET stored == {listeners[k] : k \in 1..Len(listeners)}
        cancelled == {i \in stored : task[i]}
    IN  /\ task' = [i \in ListenerIds |-> IF i \in stored THEN FALSE ELSE task[i]]
        /\ loop' = [i \in ListenerIds |->
                       IF i \in cancelled THEN HttpServer_stop(loop[i]) ELSE loop[i]]
        /\ conns' = [c \in ConnIds |->
                       IF conns[c].l \in cancelled
                       THEN gate_cancel_conns(conns, conns[c].l)[c] ELSE conns[c]]
        /\ facade' = "stopped"
        /\ op' = OpInfo("stop", 0,
                         IF facade = "stopped" THEN "again"
                         ELSE IF \E c \in ConnIds : /\ conns[c].l \in cancelled
                                                    /\ conns[c].st \in WorkerStates
                              THEN "workers" ELSE "")
        /\ UNCHANGED <<config, listeners, tls_config>>

(***************************************************************************)
(* Static files: descriptors, the descriptor cache, serve_file             *)
(***************************************************************************)
Fds == 1..MaxFd
RespIds == 1..MaxResps

\* The files under the static path, by content.
Files == [f1 |-> <<1, 2>>, f2 |-> <<3>>]
FilePaths == DOMAIN Files
\* Every file of the model, by content.
AllFiles ==
    Files @@ ("f3" :> <<7, 8, 9>>) @@
    ("index.html" :> <<4>>) @@ ("index.htm" :> <<5>>) @@
    ("sub/index.html" :> <<6>>) @@ ("sub/index.htm" :> <<5, 6>>)

\* LruCache::new(NonZeroUsize::new(100)): more entries than there are files.
FileCacheCapacity == 100

\* ---- the kernel's side: descriptors and open file descriptions ----
\* A kernel state k is [fd, ofd]: fd[n] is the description descriptor n
\* refers to (0: closed); ofd[d] is what was opened and the position reads
\* continue from.  Duplicates refer to the same description.
FreeOfd == [obj |-> "", pos |-> 0]
Min(S) == CHOOSE n \in S : \A m \in S : n <= m
FreeFds(k) == {n \in Fds : k.fd[n] = 0}
\* A new descriptor is the lowest-numbered one not open.
LowestFree(k) == Min(FreeFds(k))
UnusedOfd(k) == Min({d \in Fds : \A n \in Fds : k.fd[n] # d})

\* open(2) / accept(2): a new description behind a new descriptor.
k_open(k, obj) ==
    [fd |-> [k.fd EXCEPT ![LowestFree(k)] = UnusedOfd(k)],
     ofd |-> [k.ofd EXCEPT ![UnusedOfd(k)] = [obj |-> obj, pos |-> 0]]]

\* dup(2) of an open descriptor.
k_dup(k, n) == [k EXCEPT !.fd[LowestFree(k)] = k.fd[n]]

\* close(2): the description goes with its last descriptor.
k_close(k, n) ==
    [fd |-> [k.fd EXCEPT ![n] = 0],
     ofd |-> IF \E m \in Fds \ {n} : k.fd[m] = k.fd[n]
             THEN k.ofd
             ELSE [k.ofd EXCEPT ![k.fd[n]] = FreeOfd]]

\* fstat(2) st_size: the file's length; 0 for a socket.
object_size(obj) == IF obj \in DOMAIN AllFiles THEN Len(AllFiles[obj]) ELSE 0

\* ---- StaticPath ----
NoFileResp == [st |-> "idle", path |-> "", fd |-> 0, status |-> 0, content_length |-> 0,
               accept_ranges |-> FALSE, body |-> <<>>]
FileNotFound(path) == [NoFileResp EXCEPT !.st = "error", !.path = path]

\* StaticPath::cache_file.  On a hit the cached descriptor number is
\* duplicated.  On a miss the file is opened, its descriptor number goes
\* into the cache, the descriptor is duplicated, and the File that owns the
\* cached number is dropped at the end of the arm.
cache_file(k, cache, path) ==
    IF cache[path] # 0
    THEN IF k.fd[cache[path]] = 0
         THEN [k |-> k, cache |-> cache, ok |-> FALSE, fd |-> 0]
         ELSE [k |-> k_dup(k, cache[path]), cache |-> cache, ok |-> TRUE,
               fd |-> LowestFree(k)]
    ELSE LET raw_fd == LowestFree(k)
             opened == k_open(k, path)
             dupped == k_dup(opened, raw_fd)
         IN  [k |-> k_close(dupped, raw_fd),
              cache |-> [cache EXCEPT ![path] = raw_fd],
              ok |-> TRUE,
              fd |-> LowestFree(opened)]

\* StaticPath::serve_file without a Range header.
serve_file(k, cache, path) ==
    LET cf == cache_file(k, cache, path)
        filesize == object_size(cf.k.ofd[cf.k.fd[cf.fd]].obj)
    IN  IF ~cf.ok
        THEN [k |-> cf.k, cache |-> cf.cache, resp |-> FileNotFound(path)]
        ELSE [k |-> cf.k, cache |-> cf.cache,
              resp |-> [st |-> "streaming", path |-> path, fd |-> cf.fd, status |-> 200,
                        content_length |-> filesize, accept_ranges |-> TRUE,
                        body |-> <<>>]]

\* Descriptors serve_file takes from the table while it runs: the opened
\* file and its duplicate on a miss, the duplicate on a hit.
DescriptorsNeeded(k, cache, path) ==
    IF cache[path] = 0 THEN 2 ELSE IF k.fd[cache[path]] = 0 THEN 0 ELSE 1

Kernel == [fd |-> fd_table, ofd |-> ofd]

IdleStatic ==
    /\ fd_table = [n \in Fds |-> 0]
    /\ ofd = [d \in Fds |-> FreeOfd]
    /\ file_cache = [f \in FilePaths |-> 0]
    /\ sockets = {}
    /\ resps = [r \in RespIds |-> NoFileResp]

(***************************************************************************)
(* StaticPath::handle                                                      *)
(***************************************************************************)
\* Everything that can exist under the static directory, by content.  f1 and
\* f3 always exist; "sub" is a directory that always exists; the index
\* files exist or not, in the root and in sub.
SiteFiles == AllFiles
SitePaths == DOMAIN SiteFiles
Directories == {"", "sub"}
Sites ==
    { {"f1", "f3"} \cup opt :
        opt \in { {}, {"index.html"}, {"index.htm", "sub/index.html"},
                  {"index.html", "sub/index.htm"}, {"sub/index.html"} } }

exists(st, file) == file \in st \/ file \in Directories
is_dir(file) == file \in Directories

\* directory.join(name)
join(dir, name) == IF dir = "" THEN name ELSE dir \o "/" \o name

\* Regex::new(".html").is_match(uri): some character followed by "html".
ext_regex_is_match(uri) == uri \in {"m.html", "index.html", "sub/index.html"}

\* minimime::lookup_by_filename: by extension.
mime_type(file) ==
    IF file \in {"m.html", "index.html", "sub/index.html", "index.htm", "sub/index.htm"}
    THEN "text/html" ELSE ""

\* StaticPathConfig: index_files (<<>>: not configured) and auth.
IndexFiles == <<"index.html", "index.htm">>
StaticConfigs == [index_files : {<<>>, IndexFiles}, auth : BOOLEAN]

\* StaticPath::new: the first configured index file that exists in the
\* static directory ("": none).
index_file(st, cfg) ==
    LET found == {i \in 1..Len(cfg.index_files) : cfg.index_files[i] \in st}
    IN  IF found = {} THEN "" ELSE cfg.index_files[Min(found)]

\* ---- requests ----
NoRange == [unit |-> "", start |-> 0, end |-> 0]
Ranges == [unit : {"bytes"}, start : 0..MaxRange, end : 0..MaxRange]
           \cup {[unit |-> "items", start |-> 0, end |-> 1]}

\* The Authorization header: absent, or a scheme and what its payload
\* decodes to (base64 that decodes or not, credentials with a colon or not).
NoAuthorization == [present |-> FALSE, scheme |-> "", decodes |-> FALSE, colon |-> FALSE,
                    username |-> "", password |-> ""]
Credentials(scheme, decodes, colon, u, pw) ==
    [present |-> TRUE, scheme |-> scheme, decodes |-> decodes, colon |-> colon,
     username |-> u, password |-> pw]
GoodAuthorization == Credentials("Basic", TRUE, TRUE, "bob", "pw")
BadAuthorizations ==
    { NoAuthorization,
      Credentials("Bearer", TRUE, TRUE, "bob", "pw"),
      Credentials("Basic", FALSE, FALSE, "", ""),
      Credentials("Basic", TRUE, FALSE, "bobpw", ""),
      Credentials("Basic", TRUE, TRUE, "eve", "pw"),
      Credentials("Basic", TRUE, TRUE, "bob", "bad") }
\* BasicAuthConfig.users
Users == ("bob" :> "pw")

\* BasicAuth::authenticate, then unwrap_or(false): every Err and Ok(false)
\* is "not authenticated".
authenticate(a) ==
    /\ a.present
    /\ a.scheme = "Basic"
    /\ a.decodes
    /\ a.colon
    /\ a.username \in DOMAIN Users
    /\ Users[a.username] = a.password

Targets == {"f1", "f3", "", "sub", "m.html", "m"}
StaticRequest(m, t, r, a) == [method |-> m, target |-> t, range |-> r, authorization |-> a]
NoStaticRequest == StaticRequest("", "", NoRange, NoAuthorization)
StaticRequests ==
    {StaticRequest(m, t, NoRange, GoodAuthorization) : m \in {"GET", "HEAD"}, t \in Targets}
    \cup {StaticRequest("GET", "f3", r, GoodAuthorization) : r \in Ranges}
    \cup {StaticRequest("GET", t, NoRange, a) : t \in {"f3", "sub"}, a \in BadAuthorizations}

\* ---- responses ----
NoHeaders == [content_length |-> -1, accept_ranges |-> FALSE, last_modified |-> FALSE,
              content_type |-> ""]
NoHandleResp == [kind |-> "none", status |-> 0, headers |-> NoHeaders, body |-> <<>>,
                 file |-> "", err |-> "", conn |-> "open"]
Response(status, headers, body, file) ==
    [kind |-> "ok", status |-> status, headers |-> headers, body |-> body,
     file |-> file, err |-> "", conn |-> "open"]
Err(e) == [NoHandleResp EXCEPT !.kind = "err", !.err = e]

\* cache_file for a path that may not exist: File::open fails on a miss.
open_cached(st, k, cache, path) ==
    IF path \notin st /\ (path \notin DOMAIN cache \/ cache[path] = 0)
    THEN [k |-> k, cache |-> cache, ok |-> FALSE, fd |-> 0]
    ELSE cache_file(k, cache, path)

\* What a body made from descriptor fd sends: the file from the position of
\* its description to the end.
body_from_file(k, fd) ==
    LET d == k.ofd[k.fd[fd]]
    IN  IF d.obj \in SitePaths
        THEN SubSeq(SiteFiles[d.obj], d.pos + 1, Len(SiteFiles[d.obj]))
        ELSE <<>>

\* file.seek(SeekFrom::Start(start))
k_seek(k, fd, start) == [k EXCEPT !.ofd[k.fd[fd]].pos = start]

\* StaticPath::serve_file with its body sent to the end and the duplicate
\* descriptor dropped.
serve_file_range(st, k, cache, path, range) ==
    LET cf == open_cached(st, k, cache, path)
        filesize == object_size(cf.k.ofd[cf.k.fd[cf.fd]].obj)
        served == cf.k.ofd[cf.k.fd[cf.fd]].obj
        dropped == k_close(cf.k, cf.fd)
        ok200 == Response(200, [NoHeaders EXCEPT !.accept_ranges = TRUE,
                                                 !.content_length = filesize],
                          body_from_file(cf.k, cf.fd), served)
    IN  IF ~cf.ok
        THEN [k |-> cf.k, cache |-> cf.cache, resp |-> Err("NotFound")]
        ELSE IF range = NoRange
        THEN [k |-> dropped, cache |-> cf.cache, resp |-> ok200]
        ELSE IF range.unit # "bytes"
        THEN [k |-> dropped, cache |-> cf.cache, resp |-> Err("InvalidRange")]
        ELSE IF range.start > range.end \/ range.start >= filesize
        THEN [k |-> dropped, cache |-> cf.cache, resp |-> Response(416, NoHeaders, <<>>, "")]
        ELSE IF range.start < range.end /\ range.end < filesize
        THEN [k |-> dropped, cache |-> cf.cache,
              resp |-> Response(206, NoHeaders,
                                body_from_file(k_seek(cf.k, cf.fd, range.start), cf.fd),
                                served)]
        ELSE [k |-> dropped, cache |-> cf.cache, resp |-> ok200]

\* StaticPath::serve_metadata
serve_metadata(st, k, cache, path) ==
    LET cf == open_cached(st, k, cache, path)
        len == object_size(cf.k.ofd[cf.k.fd[cf.fd]].obj)
    IN  IF ~cf.ok
        THEN [k |-> cf.k, cache |-> cf.cache, resp |-> Err("NotFound")]
        ELSE [k |-> k_close(cf.k, cf.fd), cache |-> cf.cache,
              resp |-> Response(200, [NoHeaders EXCEPT !.content_length = len,
                                                       !.last_modified = TRUE,
                                                       !.content_type = mime_type(path)],
                                <<>>, "")]

\* StaticPath::serve_index_file
serve_index_file(st, cfg, k, cache, directory) ==
    IF index_file(st, cfg) # ""
    THEN serve_file_range(st, k, cache, join(directory, index_file(st, cfg)), NoRange)
    ELSE [k |-> k, cache |-> cache, resp |-> Err("NotFound")]

\* StaticPath::handle
handle(st, cfg, k, cache, req) ==
    LET file == req.target
        serve == IF req.method = "HEAD"
                 THEN serve_metadata(st, k, cache, file)
                 ELSE serve_file_range(st, k, cache, file, req.range)
    IN  IF cfg.auth /\ ~authenticate(req.authorization)
        THEN [k |-> k, cache |-> cache, resp |-> Err("Unauthorized")]
        ELSE IF cfg.index_files # <<>>
        THEN IF ~exists(st, file)
             THEN IF ~ext_regex_is_match(file)
                  THEN serve_index_file(st, cfg, k, cache, "")
                  ELSE serve
             ELSE IF is_dir(file)
             THEN serve_index_file(st, cfg, k, cache, file)
             ELSE serve
        ELSE IF ~exists(st, file)
        THEN [k |-> k, cache |-> cache, resp |-> Err("NotFound")]
        ELSE serve

\* VirtualHost::route hands the handler's result on, and so does the
\* service function: an Err reaches the codec, which ends the connection.
serve_connection(result) ==
    IF result.kind = "err" THEN [result EXCEPT !.conn = "error"] ELSE result

IdleHandle ==
    /\ site = {}
    /\ static_config = [index_files |-> <<>>, auth |-> FALSE]
    /\ h_req = NoStaticRequest
    /\ h_resp = NoHandleResp

(***************************************************************************)
(* The registry lock.  VetisVirtualHosts is Arc<VetisRwLock<HashMap>>; the *)
(* lock is tokio::sync::RwLock or smol::lock::RwLock (tests/tls.rs:11-14), *)
(* both write-preferring: a task waiting for the write guard keeps later   *)
(* readers out.  A guard is released when it is dropped.                   *)
(***************************************************************************)
ReqIds == 1..MaxReqs

NoVirtualHost == [hostname |-> "", port |-> 0, secure |-> FALSE, paths |-> RootPaths]
NoTask == [pc |-> "idle", host |-> "", status |-> 0]
NoLock == [readers |-> {}, writer |-> FALSE]
NoAdder == [pc |-> "idle", vh |-> NoVirtualHost]

\* value.read().await: granted when no write guard is held and no writer
\* waits.
read_ready(l, a) == ~l.writer /\ a.pc # "waiting"
read_acquire(l, r) == [l EXCEPT !.readers = @ \cup {r}]
read_release(l, r) == [l EXCEPT !.readers = @ \ {r}]

\* write().await: granted when no guard of either kind is held.
write_ready(l) == ~l.writer /\ l.readers = {}
write_acquire(l) == [l EXCEPT !.writer = TRUE]
write_release(l) == [l EXCEPT !.writer = FALSE]

IdleLock ==
    /\ lock = NoLock
    /\ reqs = [r \in ReqIds |-> NoTask]
    /\ adder = NoAdder
    /\ added = <<>>

(***************************************************************************)
(* LruCache<String, RawFileDescriptor> as cache_file uses it: the keys in  *)
(* recency order, most recently used first.                                *)
(***************************************************************************)
Capacities == 1..MaxCapacity

\* The paths cache_file is asked for: the files of the site and one path
\* that names no file.
CachePaths == SitePaths \cup {"m"}

NoCacheReq == [path |-> "", outcome |-> "", evicted |-> {}]

Keys(c) == {c[i] : i \in 1..Len(c)}
Without(c, key) == SelectSeq(c, LAMBDA x : x # key)

\* LruCache::get: a hit moves the entry to the most-recently-used end.
LruCache_get(c, key) ==
    IF key \in Keys(c) THEN <<key>> \o Without(c, key) ELSE c

\* get_or_insert that never removes an entry.
LruCache_get_or_insert_NoEvict(c, cap, key) ==
    IF key \in Keys(c) THEN <<key>> \o Without(c, key)
    ELSE <<key>> \o c

\* LruCache::get_or_insert: a hit is a get; a miss puts the entry at the
\* most-recently-used end, and at capacity first removes the entry at the
\* least-recently-used end.
LruCache_get_or_insert(c, cap, key) ==
    IF key \in Keys(c) THEN <<key>> \o Without(c, key)
    ELSE IF Len(c) >= cap THEN <<key>> \o SubSeq(c, 1, cap - 1)
    ELSE <<key>> \o c

\* The cache side of StaticPath::cache_file: get on a hit; on a miss the
\* file is opened and, when that succeeds, get_or_insert.
cache_file_keys(c, cap, path) ==
    IF path \in Keys(c)
    THEN [cache |-> LruCache_get(c, path), outcome |-> "hit"]
    ELSE IF path \in SitePaths
    THEN [cache |-> LruCache_get_or_insert(c, cap, path), outcome |-> "inserted"]
    ELSE [cache |-> c, outcome |-> "open_error"]

\* The keys a call removed from the cache.
Evicted(before, after) == Keys(before) \ Keys(after)

\* StaticPath::cache_file over an LruCache with a capacity: the descriptor
\* side is cache_file, the key side cache_file_keys; an entry the insert
\* removed leaves the map with its descriptor number (a RawFileDescriptor
\* is a number: dropping it closes nothing).
cache_file_lru(k, cache, order, cap, path) ==
    LET cf == cache_file(k, cache, path)
        keys == cache_file_keys(order, cap, path).cache
    IN  [k |-> cf.k,
         cache |-> [p \in DOMAIN cf.cache |-> IF p \in Keys(keys) THEN cf.cache[p] ELSE 0],
         order |-> keys,
         ok |-> cf.ok,
         fd |-> cf.fd]

IdleCache ==
    /\ lru = <<>>
    /\ lru_cap = FileCacheCapacity
    /\ lru_req = NoCacheReq

(***************************************************************************)
(* WsgiWorker::handle (interface/python/wsgi/mod.rs). A WSGI application   *)
(* is what it does when called: whether it calls start_response, with      *)
(* which status line and header list, whether it raises (in the call or    *)
(* while its result is iterated), and the chunks its iterator yields.      *)
(***************************************************************************)
MaxChunks == 2
MaxHeaders == 2

StatusLines == {"200 OK", "404 Not Found", "500 Internal Server Error", "", "oops", "99 Low"}
HeaderNames == {"content-type", "set-cookie", "X-A", "bad name"}
HeaderValues == {"a", "b"}
Chunks == {<<>>, <<1>>, <<2, 3>>}

HeaderLists == UNION {[1..n -> HeaderNames \X HeaderValues] : n \in 0..MaxHeaders}
ChunkLists == UNION {[1..n -> Chunks] : n \in 0..MaxChunks}

WsgiApps ==
    [calls_start : BOOLEAN,
     status : StatusLines,
     headers : HeaderLists,
     raises : {"no", "call", "iter"},
     chunks : ChunkLists]

\* status.split_whitespace().next(): the first token of the status line.
split_whitespace_next(status) ==
    CASE status = "200 OK" -> Some("200")
      [] status = "404 Not Found" -> Some("404")
      [] status = "500 Internal Server Error" -> Some("500")
      [] status = "oops" -> Some("oops")
      [] status = "99 Low" -> Some("99")
      [] OTHER -> NoneStr

\* str::parse::<StatusCode>(): three digits, 100..=999; 0 stands for Err.
parse_StatusCode(t) ==
    CASE t = "200" -> 200
      [] t = "404" -> 404
      [] t = "500" -> 500
      [] OTHER -> 0

\* HeaderName::from_bytes: a token, stored in lower case; None for a name
\* that is not a token.
HeaderName_from_bytes(name) ==
    CASE name = "X-A" -> Some("x-a")
      [] name = "bad name" -> NoneStr
      [] OTHER -> Some(name)

\* HeaderMap::insert: replaces the value of a name already in the map.
HeaderMap_insert(map, name, value) ==
    IF \E i \in 1..Len(map) : map[i][1] = name
    THEN [i \in 1..Len(map) |-> IF map[i][1] = name THEN <<name, value>> ELSE map[i]]
    ELSE Append(map, <<name, value>>)

RECURSIVE wsgi_fold_headers(_, _)
wsgi_fold_headers(map, headers) ==
    IF headers = <<>> THEN map
    ELSE wsgi_fold_headers(
            HeaderMap_insert(map, HeaderName_from_bytes(Head(headers)[1]).val, Head(headers)[2]),
            Tail(headers))

\* The closure run under spawn_blocking: Err when the application raises,
\* else the first of the collected chunks, or no bytes when there is none.
wsgi_call_app(app) ==
    IF app.raises # "no" THEN [ok |-> FALSE, body |-> <<>>]
    ELSE [ok |-> TRUE, body |-> IF app.chunks = <<>> THEN <<>> ELSE app.chunks[1]]

NoWsgiResp == [kind |-> "none", status |-> 0, headers |-> <<>>, body |-> <<>>, msg |-> ""]
WsgiErr(msg) == [NoWsgiResp EXCEPT !.kind = "err", !.msg = msg]

WsgiWorker_handle(app) ==
    LET response_body == wsgi_call_app(app)
        token == split_whitespace_next(app.status)
    IN  IF ~app.calls_start THEN WsgiErr("channel closed")
        ELSE IF ~token.some THEN WsgiErr("Invalid status message")
        ELSE IF parse_StatusCode(token.val) = 0 THEN WsgiErr("Invalid status code")
        ELSE IF \E i \in 1..Len(app.headers) : ~HeaderName_from_bytes(app.headers[i][1]).some
             THEN [NoWsgiResp EXCEPT !.kind = "panic"]
        ELSE IF ~response_body.ok THEN WsgiErr("script failed")
        ELSE [kind |-> "ok",
              status |-> parse_StatusCode(token.val),
              headers |-> wsgi_fold_headers(<<>>, app.headers),
              body |-> response_body.body,
              msg |-> ""]

NoWsgi == [app |-> [calls_start |-> FALSE, status |-> "", headers |-> <<>>,
                    raises |-> "no", chunks |-> <<>>],
           resp |-> NoWsgiResp]

(***************************************************************************)
(* ProxyPath::handle (server/path.rs, virtual_host/path/proxy/mod.rs).     *)
(* The upstream is what it answers; seen is the request it received.       *)
(***************************************************************************)
ProxyUris == {"/", "/a", "/api"}
ProxyTargets == {"http://upstream:9000", "http://up/v1", "::bad"}
ProxyReqPaths == {"/", "/a/b", "/api", "/api/users/42", "/apix"}
ProxyMethods == {"GET", "POST"}
ProxyHeaders == {<<>>, <<<<"x-a", "1">>, <<"accept", "*/*">>>>}
ProxyBodies == {<<>>, <<7, 8>>}
ProxyStatuses == {200, 404, 503}

ProxyConfigs == [uri : ProxyUris, target : ProxyTargets]
ProxyRequests ==
    [method : ProxyMethods, path : ProxyReqPaths, headers : ProxyHeaders, body : ProxyBodies]
Upstreams ==
    [ok : {TRUE}, status : ProxyStatuses, headers : ProxyHeaders, body : ProxyBodies]
    \cup {[ok |-> FALSE, status |-> 0, headers |-> <<>>, body |-> <<>>]}

\* str::strip_prefix: the rest of t after the prefix, None when t does not
\* start with it.
strip_prefix(t, prefix) ==
    IF Len(prefix) <= Len(t) /\ SubSeq(t, 1, Len(prefix)) = prefix
    THEN Some(SubSeq(t, Len(prefix) + 1, Len(t)))
    ELSE NoneStr

\* The same request path handed on whole.
proxy_target_path_Whole(path, uri) == path

\* request_parts.uri.path().strip_prefix(uri).unwrap_or("")
proxy_target_path(path, uri) ==
    LET stripped == strip_prefix(path, uri)
    IN  IF stripped.some THEN stripped.val ELSE ""

\* DeboaRequest::at: Err for a URL that does not parse.
DeboaRequest_at_ok(url) == Len(url) >= 2 /\ SubSeq(url, 1, 2) # "::"

NoSeen == [method |-> "", url |-> "", headers |-> <<>>, body |-> <<>>]
NoProxyResp == [kind |-> "none", status |-> 0, headers |-> <<>>, body |-> <<>>]
ProxyErr == [NoProxyResp EXCEPT !.kind = "err"]

\* The request built for the upstream: method and headers of the request
\* parts; no body is set.
proxy_upstream_request(cfg, request) ==
    [method |-> request.method,
     url |-> cfg.target \o proxy_target_path(request.path, cfg.uri),
     headers |-> request.headers,
     body |-> <<>>]

ProxyPath_handle(cfg, request, upstream) ==
    LET deboa_request == proxy_upstream_request(cfg, request)
    IN  IF ~DeboaRequest_at_ok(deboa_request.url)
        THEN [seen |-> NoSeen, resp |-> ProxyErr]
        ELSE IF ~upstream.ok
        THEN [seen |-> NoSeen, resp |-> ProxyErr]
        ELSE [seen |-> deboa_request,
              resp |-> [kind |-> "ok", status |-> upstream.status,
                        headers |-> upstream.headers, body |-> upstream.body]]

NoProxy == [cfg |-> [uri |-> "/", target |-> ""],
            req |-> [method |-> "", path |-> "/", headers |-> <<>>, body |-> <<>>],
            up |-> [ok |-> FALSE, status |-> 0, headers |-> <<>>, body |-> <<>>],
            seen |-> NoSeen,
            resp |-> NoProxyResp]

IdleProxy == proxy = NoProxy

(***************************************************************************)
(* TlsFactory::create_tls_config (server/tls.rs) and its caller            *)
(* HttpServer::start / handle_connections (src/server/conn/tcp/http.rs).   *)
(* A host's security block is "none" (no block), "ok" (certificate and key *)
(* parse), "bad_cert", "bad_key" or "bad_both".                            *)
(***************************************************************************)
TlsHostNames == {"a.test", "b.test"}
Securities == {"none", "ok", "bad_cert", "bad_key", "bad_both"}
TlsRegistries == UNION {[names -> Securities] : names \in SUBSET TlsHostNames}
AlpnTokens == {"h2", "http/1.1"}
AlpnLists == UNION {[1..n -> AlpnTokens] : n \in 0..2}
FeatureSets == SUBSET {"http1", "http2"}

NoTlsResult == [kind |-> "none", alpn_protocols |-> <<>>, names |-> {}, msg |-> ""]
TlsOk(alpn, names) == [kind |-> "ok", alpn_protocols |-> alpn, names |-> names, msg |-> ""]
TlsErr(msg) == [NoTlsResult EXCEPT !.kind = "err", !.msg = msg]

\* Building one host's certified key: the certificate chain is parsed, then
\* the private key.
certified_key_error(security) ==
    CASE security \in {"bad_cert", "bad_both"} -> "Failed to parse certificate"
      [] security = "bad_key" -> "Failed to parse private key"
      [] OTHER -> ""

\* A factory that passes no ALPN list on to the configuration.
TlsFactory_create_tls_config_NoAlpn(hosts, alpn) ==
    {TlsOk(<<>>, {h \in DOMAIN hosts : hosts[h] = "ok"})}

\* The outcomes of create_tls_config: the hosts are visited in the map's
\* iteration order and the first one whose block does not parse ends the
\* call; with none, Ok(Some(config)) carrying the ALPN list and one
\* certified key per secured host.
TlsFactory_create_tls_config(hosts, alpn) ==
    LET bad == {h \in DOMAIN hosts : certified_key_error(hosts[h]) # ""}
    IN  IF bad = {}
        THEN {TlsOk(alpn, {h \in DOMAIN hosts : hosts[h] = "ok"})}
        ELSE {TlsErr(certified_key_error(hosts[h])) : h \in bad}

\* The ALPN list handle_connections builds from the protocols compiled in.
listener_alpn(features) ==
    (IF "http1" \in features THEN <<"http/1.1">> ELSE <<>>)
        \o (IF "http2" \in features THEN <<"h2">> ELSE <<>>)

NoTlsListener == [started |-> FALSE, task |-> FALSE, bound |-> FALSE, err |-> ""]

\* A handle_connections that spawns the accept loop whatever the factory
\* returned.
handle_connections_SpawnAnyway(r) ==
    [started |-> TRUE, task |-> TRUE, bound |-> TRUE, err |-> ""]

\* HttpServer::start after a successful bind: handle_connections returns
\* the factory's error, or spawns the accept loop, which takes the bound
\* listener, and start stores the task.
handle_connections(r) ==
    IF r.kind = "err"
    THEN [started |-> TRUE, task |-> FALSE, bound |-> FALSE, err |-> r.msg]
    ELSE [started |-> TRUE, task |-> TRUE, bound |-> TRUE, err |-> ""]

NoTlsf == [hosts |-> <<>>, alpn |-> <<>>, features |-> {},
           result |-> NoTlsResult, listener |-> NoTlsListener]

IdleTlsf == tlsf = NoTlsf

(***************************************************************************)
(* VirtualHostConfigBuilder (config/server/virtual_host/mod.rs).           *)
(***************************************************************************)
BuilderHostnames == {"", "localhost", "example.com"}
BuilderPorts == {80, 8080, 8443}
BuilderRoots == {"", "/var/vetis/www", "src/tests", "/nope"}
Disks == SUBSET {"/var/vetis/www", "src/tests"}

\* VirtualHostConfig::builder()
VirtualHostConfig_builder ==
    [hostname |-> "localhost", port |-> 80, root_directory |-> "/var/vetis/www"]

\* std::path::Path::exists
Path_exists(disk, dir) == dir \in disk

NoBuild == [kind |-> "none", msg |-> "", hostname |-> "", port |-> 0, root_directory |-> ""]
BuildErr(msg) == [NoBuild EXCEPT !.kind = "err", !.msg = msg]

\* A build that checks the hostname only.
VirtualHostConfigBuilder_build_NoRootCheck(b, disk) ==
    IF b.hostname = ""
    THEN BuildErr("hostname is not provided")
    ELSE [kind |-> "ok", msg |-> "", hostname |-> b.hostname, port |-> b.port,
          root_directory |-> b.root_directory]

VirtualHostConfigBuilder_build(b, disk) ==
    IF b.hostname = ""
    THEN BuildErr("hostname is not provided")
    ELSE IF b.root_directory = ""
    THEN BuildErr("root_directory is not provided")
    ELSE IF ~Path_exists(disk, b.root_directory)
    THEN BuildErr("root_directory does not exist: " \o b.root_directory)
    ELSE [kind |-> "ok", msg |-> "", hostname |-> b.hostname, port |-> b.port,
          root_directory |-> b.root_directory]

NoVhc == [builder |-> VirtualHostConfig_builder, disk |-> {}, result |-> NoBuild]

IdleVhc == vhc = NoVhc

(***************************************************************************)
(* The classifier of the TCP accept loop (src/server/conn/tcp/http.rs):    *)
(* bytes of a new connection arrive one at a time; peek_exact returns when *)
(* its buffer is full, or fails when the client closes before that.        *)
(***************************************************************************)
PeekLen == 16        \* let mut peeked = [0; 16]
MaxSend == 17        \* most bytes a client sends before it waits or closes

LeadBytes == {3, 22, 71}
ClientSends == [first : LeadBytes \X LeadBytes, total : 0..MaxSend]

\* The i-th byte the client sends.
client_byte(c, i) == IF i <= 2 THEN c.first[i] ELSE 0

\* peek_exact(&mut peeked) has what it needs.
peek_exact_ready(rx) == Len(rx) >= PeekLen

NoPeek == [client |-> [first |-> <<0, 0>>, total |-> 0],
           rx |-> <<>>, closed |-> FALSE, st |-> "idle"]

IdlePeek == peek = NoPeek

(***************************************************************************)
(* One WsgiWorker serving several requests: the environ dict it holds,     *)
(* the start_response callable and the oneshot channel of each request     *)
(* (interface/python/wsgi/mod.rs, callback.rs).                            *)
(***************************************************************************)
MaxWsgiReqs == 2     \* requests one worker handles at a time
MaxCalls == 2        \* start_response calls of one application call
WReqIds == 1..MaxWsgiReqs
WsgiRequests == {[method |-> "GET", path |-> "/a"], [method |-> "POST", path |-> "/b"]}
NoWsgiRequest == [method |-> "", path |-> ""]
WStatuses == {"200 OK", "404 Not Found"}

\* The keys WsgiWorker::new puts into the dict.
BaseEnv ==
    [k \in {"wsgi.version", "wsgi.multithread", "wsgi.multiprocess", "wsgi.run_once",
            "SERVER_NAME", "SERVER_PORT", "SERVER_PROTOCOL", "SERVER_SOFTWARE"} |->
        CASE k = "wsgi.version" -> "[1, 0]"
          [] k \in {"wsgi.multithread", "wsgi.multiprocess", "wsgi.run_once"} -> "false"
          [] k = "SERVER_NAME" -> "localhost"
          [] k = "SERVER_PORT" -> "8080"
          [] k = "SERVER_PROTOCOL" -> "HTTP/1.1"
          [] OTHER -> "Vetis"]
WsgiWorker_new == BaseEnv

\* PyDict::set_item
set_item(d, k, v) == [x \in (DOMAIN d) \cup {k} |-> IF x = k THEN v ELSE d[x]]

\* The set_item calls of handle, on the dict `env.bind(py)` refers to.  The
\* requests of the model carry no query, Content-Type or Content-Length.
handle_set_items(d, req) ==
    LET d1 == set_item(d, "wsgi.url_scheme", "https")
        d2 == set_item(d1, "wsgi.input", "")
        d3 == set_item(d2, "wsgi.errors", "")
        d4 == set_item(d3, "REQUEST_METHOD", req.method)
        d5 == set_item(d4, "QUERY_STRING", "")
        d6 == set_item(d5, "PATH_INFO", req.path)
        d7 == set_item(d6, "CONTENT_TYPE", "application/json")
    IN  set_item(d7, "CONTENT_LENGTH", "0")

\* `let env = self.env.clone()`: env is an Arc<Py<PyDict>>, so the clone is
\* another handle on the worker's one dict: what the request's environ
\* refers to is the dict itself.
env_clone(d) == d

\* The oneshot sender inside a StartResponse: "some" until it is taken by a
\* call or dropped with the object.
\* StartResponse::__call__ on a callable s = [sender, chan]: the first call
\* takes the sender and sends; any later call finds None.  It returns Ok(())
\* in both cases.
StartResponse_call_NoTake(s, args) ==
    IF s.sender = "some" THEN [sender |-> "some", chan |-> Some(args)] ELSE s
StartResponse_call(s, args) ==
    IF s.sender = "some" THEN [sender |-> "taken", chan |-> Some(args)] ELSE s

\* Python frees the StartResponse object: a sender still inside is dropped.
StartResponse_drop(sender) == IF sender = "some" THEN "dropped" ELSE sender

\* rx.await is ready when a message is in the channel or the sender is gone.
rx_ready(q) == q.chan.some \/ q.sender = "dropped"

NoWReq == [pc |-> "idle", req |-> NoWsgiRequest, sender |-> "none", chan |-> NoneStr,
           calls |-> 0]
NoWorker == [env |-> WsgiWorker_new, reqs |-> [r \in WReqIds |-> NoWReq]]
IdleWorker == worker = NoWorker

(***************************************************************************)
(* The worker of one HTTP/3 request stream (conn/udp/http.rs,              *)
(* ServerHandler::handle): resolve the request, route it, send the head,   *)
(* the body and finish.  Host values are byte strings.                     *)
(***************************************************************************)
\* Host header values: "a" (registered), "x" (not registered), and a value
\* with a byte above 127, which a header value may hold.
H3HostValues == {<<97>>, <<120>>, <<97, 255>>}
H3Registered == {<<97>>}
H3Hosts == {[some |-> FALSE, val |-> <<>>]} \cup [some : {TRUE}, val : H3HostValues]
H3Inputs ==
    [resolve : BOOLEAN,         \* resolve_request() is Ok
     host : H3Hosts,            \* the request's Host header
     execute : BOOLEAN,         \* the virtual host's execute returns Ok
     send_response : BOOLEAN,   \* stream.send_response is Ok
     send_data : BOOLEAN,       \* stream.send_data is Ok
     finish : BOOLEAN]          \* stream.finish is Ok

\* HeaderValue::to_str: Ok when every byte is visible ASCII (or a tab).
HeaderValue_to_str(v) ==
    IF \A i \in 1..Len(v) : (v[i] >= 32 /\ v[i] < 127) \/ v[i] = 9
    THEN [some |-> TRUE, val |-> v]
    ELSE [some |-> FALSE, val |-> <<>>]

\* The response the worker has for the request once routing is over:
\* "panic" when host.to_str().unwrap() fails; a response; or the Err of
\* execute.
h3_route(in) ==
    IF ~in.host.some THEN [kind |-> "ok", status |-> 400]
    ELSE IF ~HeaderValue_to_str(in.host.val).some THEN [kind |-> "panic", status |-> 0]
    ELSE IF HeaderValue_to_str(in.host.val).val \notin H3Registered
    THEN [kind |-> "ok", status |-> 404]
    ELSE IF in.execute THEN [kind |-> "ok", status |-> 200]
    ELSE [kind |-> "err", status |-> 0]

\* A call on the request stream and whether it succeeded.
StreamCall(name, ok) == [call |-> name, ok |-> ok]

NoH3 == [in |-> [resolve |-> FALSE, host |-> [some |-> FALSE, val |-> <<>>],
                 execute |-> FALSE, send_response |-> FALSE, send_data |-> FALSE,
                 finish |-> FALSE],
         pc |-> "none", status |-> 0, calls |-> <<>>]
IdleH3 == h3 = NoH3

IdleWsgi == wsgi = NoWsgi

IdleIface ==
    /\ IdleWsgi
    /\ IdleProxy
    /\ IdleTlsf
    /\ IdleVhc
    /\ IdlePeek
    /\ IdleWorker
    /\ IdleH3

(***************************************************************************)
(* SpecRoute: a virtual host is built with add_path and asked to route.    *)
(***************************************************************************)
IdleRoute ==
    /\ paths = EmptyPaths
    /\ route_req = NoReq
    /\ route_resp = NoResp

InitRoute ==
    /\ IdleRoute
    /\ IdleService
    /\ IdleServer
    /\ IdleStatic
    /\ IdleHandle
    /\ IdleLock
    /\ IdleIface
    /\ IdleCache
    /\ op = Op("new")

AddPath ==
    \E uri \in Uris, h \in Handlers :
        /\ Cardinality((DOMAIN paths) \cup {uri}) <= MaxPaths
        /\ paths' = add_path(paths, uri, h)
        /\ op' = Op("add_path")
        /\ UNCHANGED <<route_req, route_resp>>
        /\ UNCHANGED serviceVars
        /\ UNCHANGED serverVars
        /\ UNCHANGED staticVars
        /\ UNCHANGED handleVars
        /\ UNCHANGED ifaceVars
        /\ UNCHANGED <<lockVars, registryVars, cacheVars>>

Route ==
    \E P \in ReqPaths :
        /\ route_req' = P
        /\ route_resp' = route(paths, P)
        /\ op' = Op("route")
        /\ UNCHANGED paths
        /\ UNCHANGED serviceVars
        /\ UNCHANGED serverVars
        /\ UNCHANGED staticVars
        /\ UNCHANGED handleVars
        /\ UNCHANGED ifaceVars
        /\ UNCHANGED <<lockVars, registryVars, cacheVars>>

NextRoute == AddPath \/ Route

SpecRoute == InitRoute /\ [][NextRoute]_vars

(***************************************************************************)
(* C1                                                                      *)
(***************************************************************************)
\* The registered URIs that are prefixes of P.
PrefixCandidates(ps, P) == {u \in DOMAIN ps : IsPrefix(u, P)}

\* The registered URI that is the longest prefix of P (URIs are map keys, so
\* two candidates of equal length are the same entry).
LongestPrefix(ps, P) ==
    CHOOSE u \in PrefixCandidates(ps, P) :
        \A v \in PrefixCandidates(ps, P) : Len(v) <= Len(u)

\* C1: route dispatches a request with path P to the registered path whose
\* URI is the longest prefix of P and returns that handler's response
\* unchanged; a request whose path equals a registered URI gets that
\* handler's status and body.
C1_RouteLongestPrefix ==
    (op.name = "route" /\ PrefixCandidates(paths, route_req) # {})
        => route_resp = HandlerResult(paths[LongestPrefix(paths, route_req)])

(***************************************************************************)
(* SpecService: hosts are registered and requests are served.              *)
(***************************************************************************)
InitService ==
    /\ IdleRoute
    /\ IdleService
    /\ IdleServer
    /\ IdleStatic
    /\ IdleHandle
    /\ IdleLock
    /\ IdleIface
    /\ IdleCache
    /\ op = Op("new")

AddVirtualHost ==
    \E vh \in VirtualHosts :
        /\ Cardinality((DOMAIN virtual_hosts) \cup {<<vh.hostname, vh.port>>}) <= MaxHosts
        /\ virtual_hosts' = add_virtual_host(virtual_hosts, vh)
        /\ op' = Op("add_virtual_host")
        /\ UNCHANGED <<svc_conn, svc_req, svc_resp>>
        /\ UNCHANGED routeVars
        /\ UNCHANGED serverVars
        /\ UNCHANGED staticVars
        /\ UNCHANGED handleVars
        /\ UNCHANGED ifaceVars
        /\ UNCHANGED <<lockVars, registryVars, cacheVars>>

Serve ==
    \E conn \in Connections(virtual_hosts), req \in Requests :
        \E resp \in service_fn(virtual_hosts, conn, req) :
            /\ svc_conn' = conn
            /\ svc_req' = req
            /\ svc_resp' = resp
            /\ op' = Op("serve")
            /\ UNCHANGED virtual_hosts
            /\ UNCHANGED routeVars
            /\ UNCHANGED serverVars
            /\ UNCHANGED staticVars
            /\ UNCHANGED handleVars
            /\ UNCHANGED ifaceVars
            /\ UNCHANGED <<lockVars, registryVars, cacheVars>>

NextService == AddVirtualHost \/ Serve

SpecService == InitService /\ [][NextService]_vars

(***************************************************************************)
(* C2 - C5                                                                 *)
(***************************************************************************)
\* Lowercasing of the host texts of the model.
ToLower(t) ==
    CASE t = "A.TEST"      -> "a.test"
      [] t = "A.TEST:8080" -> "a.test:8080"
      [] OTHER             -> t

\* The authority the specification prescribes for the lookup: the SNI name
\* when the connection is TLS, else the URI authority, else the Host header,
\* lowercased.
SpecAuthority(conn, req) ==
    IF conn.tls THEN Some(ToLower(conn.sni))
    ELSE IF req.uri_authority.some THEN Some(ToLower(req.uri_authority.val))
    ELSE IF req.host_header.some THEN Some(ToLower(req.host_header.val))
    ELSE NoneStr

SpecKey(conn, req) == <<SpecAuthority(conn, req).val, conn.port>>

\* C2: whenever the registry has no entry for the request's
\* (authority, bound port), the service function answers 404 "Virtual host
\* not found" and neither a host's route nor a handler is invoked.
C2_UnknownHost404 ==
    (op.name = "serve" /\ SpecAuthority(svc_conn, svc_req).some
                  /\ SpecKey(svc_conn, svc_req) \notin DOMAIN virtual_hosts)
        => svc_resp = HostNotFound

\* C3: a request served over a TLS connection is handled by the registry
\* entry whose hostname is the SNI name of the handshake, whatever URI
\* authority or Host header the request carries.
C3_TlsHostIsSni ==
    (op.name = "serve" /\ svc_conn.tls /\ svc_resp.served_by # NoKey)
        => svc_resp.served_by[1] = svc_conn.sni

\* C4: a request accepted on a listener bound to port p is only ever routed
\* to a virtual host registered under port p.
C4_HostPortIsBoundPort ==
    (op.name = "serve" /\ svc_resp.served_by # NoKey)
        => svc_resp.served_by[2] = svc_conn.port

\* C5: the lookup authority is the SNI name, else the URI authority, else
\* the Host header, lowercased: a cleartext request is routed to the host
\* its authority names on the bound port, also when only a Host header
\* carries it and whatever the letter case.
C5_AuthorityPriority ==
    (op.name = "serve" /\ ~svc_conn.tls /\ SpecAuthority(svc_conn, svc_req).some
                  /\ SpecKey(svc_conn, svc_req) \in DOMAIN virtual_hosts)
        => svc_resp.served_by = SpecKey(svc_conn, svc_req)

(***************************************************************************)
(* Spec: the facade is started and stopped; clients connect; the accept    *)
(* loops accept, classify, handshake and hand connections to workers.      *)
(***************************************************************************)
Init ==
    /\ IdleRoute
    /\ svc_conn = NoConn /\ svc_req = NoRequest /\ svc_resp = NoSvcResp
    /\ virtual_hosts = StartRegistry
    /\ config \in Configs
    /\ listeners = <<>>
    /\ task = [i \in ListenerIds |-> FALSE]
    /\ loop = [i \in ListenerIds |-> LoopOff]
    /\ tls_config = [i \in ListenerIds |-> {}]
    /\ conns = [c \in ConnIds |-> IdleConn]
    /\ facade = "new"
    /\ IdleStatic
    /\ IdleHandle
    /\ IdleLock
    /\ IdleIface
    /\ IdleCache
    /\ op = Op("new")

ConfigIds == 1..Len(config)
Driver(i) == config[i].driver

\* The connection context the service function runs in.
ConnCtx(c) ==
    [transport |-> Transport(Driver(conns[c].l)), port |-> config[conns[c].l].port,
     tls |-> conns[c].tls, sni |-> IF conns[c].tls THEN conns[c].sni ELSE ""]

SetConn(c, r) == [conns EXCEPT ![c] = r]
SetLoop(i, r) == [loop EXCEPT ![i] = r]

\* A client opens a connection to listener i.  It is refused when nothing
\* is bound there.  The connection takes the first unused slot.
Connect ==
    \E c \in ConnIds, i \in ConfigIds, client \in Clients :
        /\ conns[c].st = "idle"
        /\ \A b \in 1..(c - 1) : conns[b].st # "idle"
        /\ Driver(i) = "conn_udp" => client.kind = "tls"
        /\ IF Live(loop[i])
           THEN /\ conns' = SetConn(c, [IdleConn EXCEPT !.st = "queued", !.l = i,
                                                        !.kind = client.kind, !.sni = client.sni])
                /\ op' = OpOn("connect", i, c)
           ELSE /\ UNCHANGED conns
                /\ op' = OpOn("refused", i, c)
        /\ UNCHANGED <<config, listeners, task, loop, tls_config, facade>>
        /\ UNCHANGED <<routeVars, serviceVars, staticVars, handleVars, ifaceVars, lockVars, registryVars, cacheVars>>

\* listener.accept() returns Err.
\*   conn/tcp/http.rs: log, continue.   server/tcp.rs: expect() panics.
AcceptError ==
    \E i \in ConfigIds :
        /\ loop[i].st = "accept"
        /\ Driver(i) \in {"conn_tcp", "server_tcp"}
        /\ IF Driver(i) = "conn_tcp"
           THEN UNCHANGED <<loop, conns>>
           ELSE /\ loop' = SetLoop(i, LoopDead)
                /\ conns' = server_task_ended(conns, i)
        /\ op' = OpOn("accept_error", i, 0)
        /\ UNCHANGED <<config, listeners, task, tls_config, facade>>
        /\ UNCHANGED <<routeVars, serviceVars, staticVars, handleVars, ifaceVars, lockVars, registryVars, cacheVars>>

\* listener.accept() returns a connection.
\*   conn/tcp/http.rs: set_nodelay, then peek.
\*   server/tcp.rs: TLS handshake when there is an acceptor, else a worker.
\*   conn/udp/http.rs: a worker awaits the QUIC handshake.
Accept ==
    \E i \in ConfigIds, c \in ConnIds :
        /\ loop[i].st = "accept"
        /\ conns[c].st = "queued" /\ conns[c].l = i
        /\ CASE Driver(i) = "conn_tcp" ->
                  /\ loop' = SetLoop(i, [st |-> "peek", c |-> c])
                  /\ conns' = SetConn(c, [conns[c] EXCEPT !.st = "inloop"])
             [] Driver(i) = "server_tcp" /\ config[i].tls_acceptor ->
                  /\ loop' = SetLoop(i, [st |-> "handshake", c |-> c])
                  /\ conns' = SetConn(c, [conns[c] EXCEPT !.st = "inloop"])
             [] Driver(i) = "server_tcp" /\ ~config[i].tls_acceptor ->
                  /\ conns' = SetConn(c, [conns[c] EXCEPT !.st = "serving"])
                  /\ UNCHANGED loop
             [] Driver(i) = "conn_udp" ->
                  /\ conns' = SetConn(c, [conns[c] EXCEPT !.st = "worker_handshake"])
                  /\ UNCHANGED loop
        /\ op' = OpOn("accept", i, c)
        /\ UNCHANGED <<config, listeners, task, tls_config, facade>>
        /\ UNCHANGED <<routeVars, serviceVars, staticVars, handleVars, ifaceVars, lockVars, registryVars, cacheVars>>

\* stream.set_nodelay(true) fails: log, continue (conn/tcp/http.rs).
SetNodelayError ==
    \E i \in ConfigIds, c \in ConnIds :
        /\ loop[i].st = "accept"
        /\ Driver(i) = "conn_tcp"
        /\ conns[c].st = "queued" /\ conns[c].l = i
        /\ conns' = SetConn(c, IdleConn)
        /\ op' = OpOn("nodelay_error", i, c)
        /\ UNCHANGED <<config, listeners, task, loop, tls_config, facade>>
        /\ UNCHANGED <<routeVars, serviceVars, staticVars, handleVars, ifaceVars, lockVars, registryVars, cacheVars>>

\* peek_exact fills its buffer: classify (conn/tcp/http.rs).
PeekDone ==
    \E i \in ConfigIds :
        LET c == loop[i].c IN
        /\ loop[i].st = "peek"
        /\ conns[c].kind \in {"clear", "tls"}
        /\ IF is_tls(FirstBytes(conns[c].kind))
           THEN /\ loop' = SetLoop(i, [st |-> "handshake", c |-> c])
                /\ UNCHANGED conns
           ELSE /\ loop' = SetLoop(i, LoopAccept)
                /\ conns' = SetConn(c, [conns[c] EXCEPT !.st = "serving"])
        /\ op' = OpOn("peek", i, c)
        /\ UNCHANGED <<config, listeners, task, tls_config, facade>>
        /\ UNCHANGED <<routeVars, serviceVars, staticVars, handleVars, ifaceVars, lockVars, registryVars, cacheVars>>

\* The client closes before the peek buffer is full: peek_exact returns
\* Err(UnexpectedEof) and unwrap() panics inside the server task.
PeekEof ==
    \E i \in ConfigIds :
        LET c == loop[i].c IN
        /\ loop[i].st = "peek"
        /\ conns[c].kind = "short"
        /\ loop' = SetLoop(i, LoopDead)
        /\ conns' = server_task_ended(conns, i)
        /\ op' = OpOn("peek_eof", i, c)
        /\ UNCHANGED <<config, listeners, task, tls_config, facade>>
        /\ UNCHANGED <<routeVars, serviceVars, staticVars, handleVars, ifaceVars, lockVars, registryVars, cacheVars>>

\* A handshake whose certificate resolver reads the registry as it is now.
HandshakeOk_LiveRegistry ==
    \E i \in ConfigIds :
        LET c == loop[i].c IN
        /\ loop[i].st = "handshake"
        /\ conns[c].sni \in SecureNames(virtual_hosts)
        /\ loop' = SetLoop(i, LoopAccept)
        /\ conns' = SetConn(c, [conns[c] EXCEPT !.st = "serving", !.tls = TRUE])
        /\ op' = OpOn("handshake_ok", i, c)
        /\ UNCHANGED <<config, listeners, task, tls_config, facade>>
        /\ UNCHANGED <<routeVars, serviceVars, staticVars, handleVars, ifaceVars, lockVars, registryVars, cacheVars>>

\* tls_acceptor.accept succeeds: the resolver has a certificate for the
\* server name; the connection goes to a worker.
HandshakeOk ==
    \E i \in ConfigIds :
        LET c == loop[i].c IN
        /\ loop[i].st = "handshake"
        /\ conns[c].sni \in tls_config[i]
        /\ loop' = SetLoop(i, LoopAccept)
        /\ conns' = SetConn(c, [conns[c] EXCEPT !.st = "serving", !.tls = TRUE])
        /\ op' = OpOn("handshake_ok", i, c)
        /\ UNCHANGED <<config, listeners, task, tls_config, facade>>
        /\ UNCHANGED <<routeVars, serviceVars, staticVars, handleVars, ifaceVars, lockVars, registryVars, cacheVars>>

\* tls_acceptor.accept fails (no certificate for the name, or the client
\* aborts).   conn/tcp/http.rs: log, continue.   server/tcp.rs: expect() panics.
HandshakeError ==
    \E i \in ConfigIds :
        LET c == loop[i].c IN
        /\ loop[i].st = "handshake"
        /\ IF Driver(i) = "conn_tcp"
           THEN /\ loop' = SetLoop(i, LoopAccept)
                /\ conns' = SetConn(c, IdleConn)
           ELSE /\ loop' = SetLoop(i, LoopDead)
                /\ conns' = server_task_ended(conns, i)
        /\ op' = OpOn("handshake_error", i, c)
        /\ UNCHANGED <<config, listeners, task, tls_config, facade>>
        /\ UNCHANGED <<routeVars, serviceVars, staticVars, handleVars, ifaceVars, lockVars, registryVars, cacheVars>>

\* conn/udp/http.rs: the worker's `new_conn.await`.
WorkerHandshake ==
    \E c \in ConnIds :
        /\ conns[c].st = "worker_handshake"
        /\ \/ /\ conns[c].sni \in tls_config[conns[c].l]
              /\ conns' = SetConn(c, [conns[c] EXCEPT !.st = "serving", !.tls = TRUE])
              /\ op' = OpOn("worker_handshake_ok", conns[c].l, c)
           \/ /\ conns' = SetConn(c, IdleConn)
              /\ op' = OpOn("worker_handshake_error", conns[c].l, c)
        /\ UNCHANGED <<config, listeners, task, loop, tls_config, facade>>
        /\ UNCHANGED <<routeVars, serviceVars, staticVars, handleVars, ifaceVars, lockVars, registryVars, cacheVars>>

\* A worker's codec reads a request and runs the service function.
ServeRequest ==
    \E c \in ConnIds, req \in ServerRequests :
        /\ conns[c].st = "serving"
        /\ \E resp \in IF Driver(conns[c].l) = "server_tcp"
                       THEN {generic_handler}
                       ELSE service_fn(virtual_hosts, ConnCtx(c), req) :
              conns' = SetConn(c, [conns[c] EXCEPT !.req = req, !.resp = resp])
        /\ op' = OpOn("serve", conns[c].l, c)
        /\ UNCHANGED <<config, listeners, task, loop, tls_config, facade>>
        /\ UNCHANGED <<routeVars, serviceVars, staticVars, handleVars, ifaceVars, lockVars, registryVars, cacheVars>>

\* serve_connection returns Err: the worker logs it and ends.
CodecError ==
    \E c \in ConnIds :
        /\ conns[c].st = "serving"
        /\ conns' = SetConn(c, IdleConn)
        /\ op' = OpOn("codec_error", conns[c].l, c)
        /\ UNCHANGED <<config, listeners, task, loop, tls_config, facade>>
        /\ UNCHANGED <<routeVars, serviceVars, staticVars, handleVars, ifaceVars, lockVars, registryVars, cacheVars>>

\* The client closes a served connection: serve_connection returns Ok.
ClientClose ==
    \E c \in ConnIds :
        /\ conns[c].st = "serving"
        /\ conns' = SetConn(c, IdleConn)
        /\ op' = OpOn("close", conns[c].l, c)
        /\ UNCHANGED <<config, listeners, task, loop, tls_config, facade>>
        /\ UNCHANGED <<routeVars, serviceVars, staticVars, handleVars, ifaceVars, lockVars, registryVars, cacheVars>>

FacadeStart == Start /\ UNCHANGED <<routeVars, serviceVars, staticVars, handleVars, ifaceVars, lockVars, registryVars, cacheVars>>
FacadeStop == Stop /\ UNCHANGED <<routeVars, serviceVars, staticVars, handleVars, ifaceVars, lockVars, registryVars, cacheVars>>

Next ==
    \/ FacadeStart
    \/ FacadeStop
    \/ Connect
    \/ AcceptError
    \/ Accept
    \/ SetNodelayError
    \/ PeekDone
    \/ PeekEof
    \/ HandshakeOk
    \/ HandshakeError
    \/ WorkerHandshake
    \/ ServeRequest
    \/ CodecError
    \/ ClientClose

Spec == Init /\ [][Next]_vars

TargetKey(c) == SpecKey(ConnCtx(c), conns[c].req)
TargetRegistered(c) ==
    /\ SpecAuthority(ConnCtx(c), conns[c].req).some
    /\ TargetKey(c) \in DOMAIN virtual_hosts
    /\ conns[c].req.path \in DOMAIN virtual_hosts[TargetKey(c)].paths
TargetHandler(c) == virtual_hosts[TargetKey(c)].paths[conns[c].req.path]

\* C7: when start() returns Ok every configured listener is bound with its
\* accept loop spawned; from then on, until stop, a request that a worker
\* reads for a registered host and path is answered by that path's handler.
C7_StartedServes ==
    /\ op.name = "start_ok" =>
          \A i \in ConfigIds : task[i] /\ loop[i].st = "accept"
    /\ \A c \in ConnIds :
          (/\ conns[c].st = "serving"
           /\ conns[c].resp # NoSvcResp
           /\ TargetRegistered(c))
          => /\ conns[c].resp.ok
             /\ conns[c].resp.status = HandlerResult(TargetHandler(c)).status
             /\ conns[c].resp.handler = TargetHandler(c)

\* C8: an accept() failure, a failed TLS handshake or a codec error leaves
\* the listener's accept loop running, ready for the next connection, and
\* no connection other than the failing one is touched.
C8_LoopSurvivesErrors ==
    [][op'.name \in {"accept_error", "handshake_error", "codec_error"} =>
          /\ Live(loop'[op'.l])
          /\ op'.name # "codec_error" => loop'[op'.l].st = "accept"
          /\ \A c \in ConnIds : c # op'.c => conns'[c] = conns[c]]_vars

\* C9: when the client closes before the classifier's peek is satisfied,
\* that connection is dropped, the accept loop is back at accept(), and no
\* other connection is touched.
C9_ShortPeekDropsOnlyConnection ==
    [][op'.name = "peek_eof" =>
          /\ loop'[op'.l].st = "accept"
          /\ conns'[op'.c] = IdleConn
          /\ \A c \in ConnIds : c # op'.c => conns'[c] = conns[c]]_vars

(***************************************************************************)
(* SpecStatic: GET requests for files under a static path, their bodies    *)
(* streamed from the duplicated descriptor, while connections come and go. *)
(***************************************************************************)
InitStatic ==
    /\ IdleRoute
    /\ IdleService
    /\ IdleServer
    /\ IdleStatic
    /\ IdleHandle
    /\ IdleLock
    /\ IdleIface
    /\ IdleCache
    /\ op = Op("new")

\* A GET without Range for an existing file reaches serve_file.
Get ==
    \E r \in RespIds, path \in FilePaths :
        LET out == serve_file(Kernel, file_cache, path) IN
        /\ resps[r].st = "idle"
        /\ \A b \in 1..(r - 1) : resps[b].st # "idle"
        /\ Cardinality(FreeFds(Kernel)) >= DescriptorsNeeded(Kernel, file_cache, path)
        /\ fd_table' = out.k.fd
        /\ ofd' = out.k.ofd
        /\ file_cache' = out.cache
        /\ resps' = [resps EXCEPT ![r] = out.resp]
        /\ op' = OpOn("get", 0, r)
        /\ UNCHANGED sockets
        /\ UNCHANGED <<routeVars, serviceVars, serverVars, handleVars, ifaceVars, lockVars, registryVars, cacheVars>>

\* HttpBody::from_file: the body reads the next byte through its descriptor,
\* from the position of the description; at end of file (and on a socket)
\* the body ends and the descriptor is closed.
ReadChunk ==
    \E r \in RespIds :
        LET d == ofd[fd_table[resps[r].fd]] IN
        /\ resps[r].st = "streaming"
        /\ IF d.obj \in FilePaths /\ d.pos < Len(Files[d.obj])
           THEN /\ resps' = [resps EXCEPT ![r].body = Append(@, Files[d.obj][d.pos + 1])]
                /\ ofd' = [ofd EXCEPT ![fd_table[resps[r].fd]].pos = @ + 1]
                /\ UNCHANGED fd_table
           ELSE /\ resps' = [resps EXCEPT ![r].st = "done", ![r].fd = 0]
                /\ fd_table' = k_close(Kernel, resps[r].fd).fd
                /\ ofd' = k_close(Kernel, resps[r].fd).ofd
        /\ op' = OpOn("read", 0, r)
        /\ UNCHANGED <<file_cache, sockets>>
        /\ UNCHANGED <<routeVars, serviceVars, serverVars, handleVars, ifaceVars, lockVars, registryVars, cacheVars>>

\* The response has been delivered (or the error returned).
Finish ==
    \E r \in RespIds :
        /\ resps[r].st \in {"done", "error"}
        /\ resps' = [resps EXCEPT ![r] = NoFileResp]
        /\ op' = OpOn("finish", 0, r)
        /\ UNCHANGED <<fd_table, ofd, file_cache, sockets>>
        /\ UNCHANGED <<routeVars, serviceVars, serverVars, handleVars, ifaceVars, lockVars, registryVars, cacheVars>>

\* The listener accepts a connection: a socket takes a descriptor.
SocketOpen ==
    /\ FreeFds(Kernel) # {}
    /\ fd_table' = k_open(Kernel, "socket").fd
    /\ ofd' = k_open(Kernel, "socket").ofd
    /\ sockets' = sockets \cup {LowestFree(Kernel)}
    /\ op' = Op("socket_open")
    /\ UNCHANGED <<file_cache, resps>>
    /\ UNCHANGED <<routeVars, serviceVars, serverVars, handleVars, ifaceVars, lockVars, registryVars, cacheVars>>

\* A connection ends: its socket is closed.
SocketClose ==
    \E n \in sockets :
        /\ fd_table' = k_close(Kernel, n).fd
        /\ ofd' = k_close(Kernel, n).ofd
        /\ sockets' = sockets \ {n}
        /\ op' = Op("socket_close")
        /\ UNCHANGED <<file_cache, resps>>
        /\ UNCHANGED <<routeVars, serviceVars, serverVars, handleVars, ifaceVars, lockVars, registryVars, cacheVars>>

NextStatic == Get \/ ReadChunk \/ Finish \/ SocketOpen \/ SocketClose

SpecStatic == InitStatic /\ [][NextStatic]_vars

\* C10: every GET without Range for an existing file, the first and every
\* later one, is answered 200 with Content-Length equal to the file's size
\* and Accept-Ranges: bytes, and its complete body is the file's content.
C10_StaticGetServesFile ==
    \A r \in RespIds :
        resps[r].st # "idle" =>
            /\ resps[r].st # "error"
            /\ resps[r].status = 200
            /\ resps[r].content_length = Len(Files[resps[r].path])
            /\ resps[r].accept_ranges
            /\ resps[r].st = "done" => resps[r].body = Files[resps[r].path]

(***************************************************************************)
(* SpecHandle: requests to a static path, one after the other; each is     *)
(* handled, its body sent and its descriptor dropped before the next.      *)
(***************************************************************************)
InitHandle ==
    /\ IdleRoute
    /\ IdleService
    /\ IdleServer
    /\ fd_table = [n \in Fds |-> 0]
    /\ ofd = [d \in Fds |-> FreeOfd]
    /\ file_cache = [f \in SitePaths |-> 0]
    /\ sockets = {}
    /\ resps = [r \in RespIds |-> NoFileResp]
    /\ site \in Sites
    /\ static_config \in StaticConfigs
    /\ h_req = NoStaticRequest
    /\ h_resp = NoHandleResp
    /\ IdleLock
    /\ IdleIface
    /\ IdleCache
    /\ op = Op("new")

Handle ==
    \E req \in StaticRequests :
        LET out == handle(site, static_config, Kernel, file_cache, req) IN
        /\ is_dir(req.target) => static_config.index_files # <<>>
        /\ fd_table' = out.k.fd
        /\ ofd' = out.k.ofd
        /\ file_cache' = out.cache
        /\ h_req' = req
        /\ h_resp' = serve_connection(out.resp)
        /\ op' = Op("handle")
        /\ UNCHANGED <<site, static_config, sockets, resps>>
        /\ UNCHANGED <<routeVars, serviceVars, serverVars>>
        /\ UNCHANGED <<lockVars, registryVars, cacheVars, ifaceVars>>

NextHandle == Handle

SpecHandle == InitHandle /\ [][NextHandle]_vars

(***************************************************************************)
(* SpecLock: request tasks run the service function while another task     *)
(* calls add_virtual_host.  One step per await point.                      *)
(***************************************************************************)
InitLock ==
    /\ IdleRoute
    /\ IdleService
    /\ IdleServer
    /\ IdleStatic
    /\ IdleHandle
    /\ IdleLock
    /\ IdleIface
    /\ IdleCache
    /\ op = Op("new")

LockFrame ==
    /\ UNCHANGED <<svc_conn, svc_req, svc_resp, added>>
    /\ UNCHANGED <<routeVars, serverVars, staticVars, handleVars, ifaceVars, cacheVars>>

\* let virtual_hosts = value.read().await
ReqRead(r) ==
    \E host \in HostNames :
        /\ reqs[r].pc = "idle"
        /\ read_ready(lock, adder)
        /\ lock' = read_acquire(lock, r)
        /\ reqs' = [reqs EXCEPT ![r] = [pc |-> "lookup", host |-> host, status |-> 0]]
        /\ op' = OpOn("read", 0, r)
        /\ UNCHANGED <<virtual_hosts, adder>>
        /\ LockFrame

\* virtual_hosts.get(host): Some starts virtual_host.execute(req) with the
\* guard alive; None builds the 404 and the guard is dropped with the block.
ReqLookup(r) ==
    /\ reqs[r].pc = "lookup"
    /\ IF registry_get(virtual_hosts, reqs[r].host) # {}
       THEN /\ reqs' = [reqs EXCEPT ![r].pc = "handler"]
            /\ UNCHANGED lock
       ELSE /\ reqs' = [reqs EXCEPT ![r] = [pc |-> "idle", host |-> @.host, status |-> 404]]
            /\ lock' = read_release(lock, r)
    /\ op' = OpOn("lookup", 0, r)
    /\ UNCHANGED <<virtual_hosts, adder>>
    /\ LockFrame

\* execute(req).await completes; the guard is dropped at the end of the block.
ReqHandlerDone(r) ==
    /\ reqs[r].pc = "handler"
    /\ reqs' = [reqs EXCEPT ![r] = [pc |-> "idle", host |-> @.host, status |-> 200]]
    /\ lock' = read_release(lock, r)
    /\ op' = OpOn("handler_done", 0, r)
    /\ UNCHANGED <<virtual_hosts, adder>>
    /\ LockFrame

\* add_virtual_host(vh) is called and asks for the write guard.
AddCall ==
    \E vh \in VirtualHosts :
        /\ adder.pc = "idle"
        /\ Cardinality((DOMAIN virtual_hosts) \cup {<<vh.hostname, vh.port>>}) <= MaxHosts
        /\ adder' = [pc |-> "waiting", vh |-> vh]
        /\ op' = Op("add_call")
        /\ UNCHANGED <<virtual_hosts, lock, reqs>>
        /\ LockFrame

\* The write guard is granted.
AddWrite ==
    /\ adder.pc = "waiting"
    /\ write_ready(lock)
    /\ lock' = write_acquire(lock)
    /\ adder' = [adder EXCEPT !.pc = "holding"]
    /\ op' = Op("add_write")
    /\ UNCHANGED <<virtual_hosts, reqs>>
    /\ LockFrame

\* The insert, and the write guard is dropped.
AddInsert ==
    /\ adder.pc = "holding"
    /\ virtual_hosts' = add_virtual_host(virtual_hosts, adder.vh)
    /\ lock' = write_release(lock)
    /\ adder' = NoAdder
    /\ op' = Op("add_virtual_host")
    /\ UNCHANGED reqs
    /\ LockFrame

NextLock ==
    \/ \E r \in ReqIds : ReqRead(r)
    \/ \E r \in ReqIds : ReqLookup(r)
    \/ \E r \in ReqIds : ReqHandlerDone(r)
    \/ AddCall
    \/ AddWrite
    \/ AddInsert

SpecLock == InitLock /\ [][NextLock]_vars

(***************************************************************************)
(* SpecRegistry: a sequence of add_virtual_host calls, each one whole      *)
(* (write guard, insert, release), with the calls recorded.                *)
(***************************************************************************)
InitRegistry == InitLock

Register ==
    \E vh \in VirtualHosts :
        /\ Len(added) < MaxAdds
        /\ virtual_hosts' = add_virtual_host(virtual_hosts, vh)
        /\ added' = Append(added, vh)
        /\ op' = Op("add_virtual_host")
        /\ UNCHANGED <<svc_conn, svc_req, svc_resp, lockVars>>
        /\ UNCHANGED <<routeVars, serverVars, staticVars, handleVars, ifaceVars, cacheVars>>

NextRegistry == Register

SpecRegistry == InitRegistry /\ [][NextRegistry]_vars

(***************************************************************************)
(* SpecCache: a StaticPath built with some capacity is asked for files.    *)
(***************************************************************************)
InitCache ==
    /\ IdleRoute
    /\ IdleService
    /\ IdleServer
    /\ IdleStatic
    /\ IdleHandle
    /\ IdleLock
    /\ IdleIface
    /\ lru = <<>>
    /\ lru_cap \in Capacities
    /\ lru_req = NoCacheReq
    /\ op = Op("new")

CacheFile ==
    \E path \in CachePaths :
        LET out == cache_file_keys(lru, lru_cap, path) IN
        /\ lru' = out.cache
        /\ lru_req' = [path |-> path, outcome |-> out.outcome,
                       evicted |-> Evicted(lru, out.cache)]
        /\ op' = Op("cache_file")
        /\ UNCHANGED lru_cap
        /\ UNCHANGED <<routeVars, serviceVars, serverVars, staticVars, handleVars, ifaceVars>>
        /\ UNCHANGED <<lockVars, registryVars>>

NextCache == CacheFile

SpecCache == InitCache /\ [][NextCache]_vars


(***************************************************************************)
(* SpecEvict: a StaticPath with a small cache serves files; each response  *)
(* holds the duplicate cache_file handed out until it is dropped.          *)
(***************************************************************************)
InitEvict ==
    /\ IdleRoute
    /\ IdleService
    /\ IdleServer
    /\ IdleStatic
    /\ IdleHandle
    /\ IdleLock
    /\ IdleIface
    /\ lru = <<>>
    /\ lru_cap \in Capacities
    /\ lru_req = NoCacheReq
    /\ op = Op("new")

\* cache_file(path) for a response: the VetisFile it returns owns the
\* duplicate.
EvictGet ==
    \E r \in RespIds, path \in FilePaths :
        LET out == cache_file_lru(Kernel, file_cache, lru, lru_cap, path) IN
        /\ resps[r].st = "idle"
        /\ \A b \in 1..(r - 1) : resps[b].st # "idle"
        /\ Cardinality(FreeFds(Kernel)) >= DescriptorsNeeded(Kernel, file_cache, path)
        /\ fd_table' = out.k.fd
        /\ ofd' = out.k.ofd
        /\ file_cache' = out.cache
        /\ lru' = out.order
        /\ lru_req' = [path |-> path,
                       outcome |-> IF out.ok THEN "ok" ELSE "error",
                       evicted |-> Evicted(lru, out.order)]
        /\ resps' = [resps EXCEPT ![r] =
                        IF out.ok
                        THEN [NoFileResp EXCEPT !.st = "streaming", !.path = path,
                                                !.fd = out.fd]
                        ELSE FileNotFound(path)]
        /\ op' = OpOn("cache_file", 0, r)
        /\ UNCHANGED <<sockets, lru_cap>>
        /\ UNCHANGED <<routeVars, serviceVars, serverVars, handleVars, ifaceVars, lockVars, registryVars>>

\* The response and its VetisFile are dropped: the duplicate is closed.
EvictDrop ==
    \E r \in RespIds :
        /\ resps[r].st # "idle"
        /\ resps' = [resps EXCEPT ![r] = NoFileResp]
        /\ IF resps[r].fd # 0
           THEN /\ fd_table' = k_close(Kernel, resps[r].fd).fd
                /\ ofd' = k_close(Kernel, resps[r].fd).ofd
           ELSE UNCHANGED <<fd_table, ofd>>
        /\ op' = OpOn("drop", 0, r)
        /\ UNCHANGED <<file_cache, sockets, cacheVars>>
        /\ UNCHANGED <<routeVars, serviceVars, serverVars, handleVars, ifaceVars, lockVars, registryVars>>

NextEvict == EvictGet \/ EvictDrop

SpecEvict == InitEvict /\ [][NextEvict]_vars


(***************************************************************************)
(* SpecWsgi: one WSGI path, called with applications of every behaviour.   *)
(***************************************************************************)
InitWsgi ==
    /\ IdleRoute
    /\ IdleService
    /\ IdleServer
    /\ IdleStatic
    /\ IdleHandle
    /\ IdleLock
    /\ IdleCache
    /\ wsgi \in {[app |-> app, resp |-> NoWsgiResp] : app \in WsgiApps}
    /\ IdleProxy
    /\ IdleTlsf
    /\ IdleVhc
    /\ IdlePeek
    /\ IdleWorker
    /\ IdleH3
    /\ op = Op("new")

WsgiHandle ==
        /\ wsgi.resp = NoWsgiResp
        /\ wsgi' = [wsgi EXCEPT !.resp = WsgiWorker_handle(wsgi.app)]
        /\ op' = Op("wsgi")
        /\ UNCHANGED <<routeVars, serviceVars, serverVars, staticVars, handleVars>>
        /\ UNCHANGED <<lockVars, registryVars, cacheVars, proxy, tlsf, vhc, peek, worker, h3>>

NextWsgi == WsgiHandle

SpecWsgi == InitWsgi /\ [][NextWsgi]_vars


(***************************************************************************)
(* SpecProxy: one proxy path, one request, one upstream.                   *)
(***************************************************************************)
InitProxy ==
    /\ IdleRoute
    /\ IdleService
    /\ IdleServer
    /\ IdleStatic
    /\ IdleHandle
    /\ IdleLock
    /\ IdleCache
    /\ IdleWsgi
    /\ IdleTlsf
    /\ IdleVhc
    /\ IdlePeek
    /\ IdleWorker
    /\ IdleH3
    /\ proxy \in {[NoProxy EXCEPT !.cfg = cfg, !.req = req, !.up = up] :
                    cfg \in ProxyConfigs, req \in ProxyRequests, up \in Upstreams}
    /\ op = Op("new")

ProxyHandle ==
        /\ op.name = "new"
        /\ LET out == ProxyPath_handle(proxy.cfg, proxy.req, proxy.up)
           IN  proxy' = [proxy EXCEPT !.seen = out.seen, !.resp = out.resp]
        /\ op' = Op("proxy")
        /\ UNCHANGED <<routeVars, serviceVars, serverVars, staticVars, handleVars>>
        /\ UNCHANGED <<lockVars, registryVars, cacheVars, wsgi, tlsf, vhc, peek, worker, h3>>

NextProxy == ProxyHandle

SpecProxy == InitProxy /\ [][NextProxy]_vars


(***************************************************************************)
(* SpecTls: a registry and an ALPN list; the factory is called directly,   *)
(* as the tests do, or by a TCP listener that is being started.            *)
(***************************************************************************)
InitTls ==
    /\ IdleRoute
    /\ IdleService
    /\ IdleServer
    /\ IdleStatic
    /\ IdleHandle
    /\ IdleLock
    /\ IdleCache
    /\ IdleWsgi
    /\ IdleProxy
    /\ IdleVhc
    /\ IdlePeek
    /\ IdleWorker
    /\ IdleH3
    /\ tlsf \in {[NoTlsf EXCEPT !.hosts = hosts, !.alpn = alpn, !.features = features] :
                    hosts \in TlsRegistries, alpn \in AlpnLists, features \in FeatureSets}
    /\ op = Op("new")

TlsFrame ==
    /\ UNCHANGED <<routeVars, serviceVars, serverVars, staticVars, handleVars>>
    /\ UNCHANGED <<lockVars, registryVars, cacheVars, wsgi, proxy, vhc, peek, worker, h3>>

\* TlsFactory::create_tls_config(virtual_hosts, alpn_protocols)
TlsCreate ==
    /\ op.name = "new"
    /\ \E r \in TlsFactory_create_tls_config(tlsf.hosts, tlsf.alpn) :
          tlsf' = [tlsf EXCEPT !.result = r]
    /\ op' = Op("create_tls_config")
    /\ TlsFrame

\* HttpServer::start of a TCP listener whose address is free.
TlsListen ==
    /\ op.name = "new"
    /\ \E r \in TlsFactory_create_tls_config(tlsf.hosts, listener_alpn(tlsf.features)) :
          tlsf' = [tlsf EXCEPT !.alpn = listener_alpn(tlsf.features),
                               !.result = r,
                               !.listener = handle_connections(r)]
    /\ op' = Op("listen")
    /\ TlsFrame

NextTls == TlsCreate \/ TlsListen

SpecTls == InitTls /\ [][NextTls]_vars


(***************************************************************************)
(* SpecBuild: a VirtualHostConfigBuilder is filled by its setters and      *)
(* built against a disk.                                                   *)
(***************************************************************************)
InitBuild ==
    /\ IdleRoute
    /\ IdleService
    /\ IdleServer
    /\ IdleStatic
    /\ IdleHandle
    /\ IdleLock
    /\ IdleCache
    /\ IdleWsgi
    /\ IdleProxy
    /\ IdleTlsf
    /\ IdlePeek
    /\ IdleWorker
    /\ IdleH3
    /\ vhc \in {[NoVhc EXCEPT !.disk = disk] : disk \in Disks}
    /\ op = Op("new")

BuildFrame ==
    /\ UNCHANGED <<routeVars, serviceVars, serverVars, staticVars, handleVars>>
    /\ UNCHANGED <<lockVars, registryVars, cacheVars, wsgi, proxy, tlsf, peek, worker, h3>>

BuilderHostname ==
    \E hostname \in BuilderHostnames :
        /\ vhc.result = NoBuild
        /\ vhc' = [vhc EXCEPT !.builder.hostname = hostname]
        /\ op' = Op("hostname")
        /\ BuildFrame

BuilderPort ==
    \E port \in BuilderPorts :
        /\ vhc.result = NoBuild
        /\ vhc' = [vhc EXCEPT !.builder.port = port]
        /\ op' = Op("port")
        /\ BuildFrame

BuilderRootDirectory ==
    \E root_directory \in BuilderRoots :
        /\ vhc.result = NoBuild
        /\ vhc' = [vhc EXCEPT !.builder.root_directory = root_directory]
        /\ op' = Op("root_directory")
        /\ BuildFrame

Build ==
    /\ vhc.result = NoBuild
    /\ vhc' = [vhc EXCEPT !.result = VirtualHostConfigBuilder_build(vhc.builder, vhc.disk)]
    /\ op' = Op("build")
    /\ BuildFrame

NextBuild == BuilderHostname \/ BuilderPort \/ BuilderRootDirectory \/ Build

SpecBuild == InitBuild /\ [][NextBuild]_vars


(***************************************************************************)
(* SpecPeek: one accepted connection in front of the classifier.           *)
(***************************************************************************)
InitPeek ==
    /\ IdleRoute
    /\ IdleService
    /\ IdleServer
    /\ IdleStatic
    /\ IdleHandle
    /\ IdleLock
    /\ IdleCache
    /\ IdleWsgi
    /\ IdleProxy
    /\ IdleTlsf
    /\ IdleVhc
    /\ IdleWorker
    /\ IdleH3
    /\ peek \in {[NoPeek EXCEPT !.client = c, !.st = "peeking"] : c \in ClientSends}
    /\ op = Op("new")

PeekFrame ==
    /\ UNCHANGED <<routeVars, serviceVars, serverVars, staticVars, handleVars>>
    /\ UNCHANGED <<lockVars, registryVars, cacheVars, wsgi, proxy, tlsf, vhc, worker, h3>>

\* One more byte of the client reaches the socket.
PeekArrive ==
    /\ Len(peek.rx) < peek.client.total
    /\ peek' = [peek EXCEPT !.rx = Append(@, client_byte(peek.client, Len(@) + 1))]
    /\ op' = Op("arrive")
    /\ PeekFrame

\* The client, having sent everything, closes its side.
PeekClientClose ==
    /\ Len(peek.rx) = peek.client.total
    /\ ~peek.closed
    /\ peek' = [peek EXCEPT !.closed = TRUE]
    /\ op' = Op("client_close")
    /\ PeekFrame

\* peek_exact returns Ok: the connection is classified by its first bytes.
PeekClassify ==
    /\ peek.st = "peeking"
    /\ peek_exact_ready(peek.rx)
    /\ peek' = [peek EXCEPT !.st = IF is_tls(peek.rx) THEN "tls" ELSE "clear"]
    /\ op' = Op("classify")
    /\ PeekFrame

\* peek_exact returns Err(UnexpectedEof) and unwrap() panics.
PeekUnexpectedEof ==
    /\ peek.st = "peeking"
    /\ peek.closed
    /\ ~peek_exact_ready(peek.rx)
    /\ peek' = [peek EXCEPT !.st = "panic"]
    /\ op' = Op("peek_eof")
    /\ PeekFrame

NextPeek == PeekArrive \/ PeekClientClose \/ PeekClassify \/ PeekUnexpectedEof

SpecPeek == InitPeek /\ [][NextPeek]_vars


(***************************************************************************)
(* SpecWorker: requests handled by one WsgiWorker, concurrently and one    *)
(* after the other, and what the application does with environ and with    *)
(* start_response.                                                         *)
(***************************************************************************)
InitWorker ==
    /\ IdleRoute
    /\ IdleService
    /\ IdleServer
    /\ IdleStatic
    /\ IdleHandle
    /\ IdleLock
    /\ IdleCache
    /\ IdleWsgi
    /\ IdleProxy
    /\ IdleTlsf
    /\ IdleVhc
    /\ IdlePeek
    /\ IdleWorker
    /\ IdleH3
    /\ op = Op("new")

WorkerFrame ==
    /\ UNCHANGED <<routeVars, serviceVars, serverVars, staticVars, handleVars>>
    /\ UNCHANGED <<lockVars, registryVars, cacheVars, wsgi, proxy, tlsf, vhc, peek, h3>>

\* handle is called: the oneshot channel is made, the closure goes to the
\* blocking pool with the sender inside a new StartResponse.
WorkerHandle ==
    \E r \in WReqIds, req \in WsgiRequests :
        /\ worker.reqs[r].pc = "idle"
        /\ worker' = [worker EXCEPT !.reqs[r] =
                         [NoWReq EXCEPT !.pc = "blocking", !.req = req, !.sender = "some"]]
        /\ op' = OpOn("handle", 0, r)
        /\ WorkerFrame

\* Python::attach: with the interpreter lock held the closure binds the
\* dict, sets the request's keys and calls the application.
WorkerAttach ==
    \E r \in WReqIds :
        /\ worker.reqs[r].pc = "blocking"
        /\ worker' = [worker EXCEPT
                         !.env = handle_set_items(env_clone(@), worker.reqs[r].req),
                         !.reqs[r].pc = "app"]
        /\ op' = OpOn("attach", 0, r)
        /\ WorkerFrame

\* The application reads its environ.  The interpreter switches threads
\* while application code runs, so the attach of another request can come
\* before this read.
AppReadEnviron ==
    \E r \in WReqIds :
        /\ worker.reqs[r].pc = "app"
        /\ op' = [name |-> "environ", l |-> 0, c |-> r,
                  info |-> worker.env["REQUEST_METHOD"] \o " " \o worker.env["PATH_INFO"]]
        /\ UNCHANGED worker
        /\ WorkerFrame

\* The application calls start_response(status, headers).
AppStartResponse ==
    \E r \in WReqIds, status \in WStatuses :
        LET q == worker.reqs[r]
            s == StartResponse_call([sender |-> q.sender, chan |-> q.chan], status)
        IN  /\ q.pc = "app"
            /\ q.calls < MaxCalls
            /\ worker' = [worker EXCEPT !.reqs[r].sender = s.sender,
                                        !.reqs[r].chan = s.chan,
                                        !.reqs[r].calls = @ + 1]
            /\ op' = [name |-> "start_response", l |-> 0, c |-> r, info |-> status]
            /\ WorkerFrame

\* The application's call ends, returning its iterable or raising.  The
\* StartResponse belongs to the interpreter: it is freed, and a sender
\* still inside dropped, unless something in Python still refers to it
\* (the application stored it; the frame in a raised exception's traceback
\* holds it as an argument, and the PyErr lives in response_body).
AppEnd ==
    \E r \in WReqIds, raised \in BOOLEAN, kept \in BOOLEAN :
        /\ worker.reqs[r].pc = "app"
        /\ worker' = [worker EXCEPT !.reqs[r] =
                         [NoWReq EXCEPT
                             !.pc = "await",
                             !.chan = worker.reqs[r].chan,
                             !.sender = IF kept THEN worker.reqs[r].sender
                                        ELSE StartResponse_drop(worker.reqs[r].sender)]]
        /\ op' = OpInfo(IF raised THEN "app_raise" ELSE "app_return", 0,
                        IF kept THEN "kept" ELSE "freed")
        /\ WorkerFrame

\* rx.await returns: Ok with the message, or Err when the sender is gone;
\* handle then returns a response or an error without waiting again.
WorkerReceive ==
    \E r \in WReqIds :
        LET q == worker.reqs[r] IN
        /\ q.pc = "await"
        /\ rx_ready(q)
        /\ worker' = [worker EXCEPT !.reqs[r] = NoWReq]
        /\ op' = [name |-> "receive", l |-> 0, c |-> r,
                  info |-> IF q.chan.some THEN "message" ELSE "err: channel"]
        /\ WorkerFrame

NextWorker ==
    \/ WorkerHandle
    \/ WorkerAttach
    \/ AppReadEnviron
    \/ AppStartResponse
    \/ AppEnd
    \/ WorkerReceive

SpecWorker == InitWorker /\ [][NextWorker]_vars

(***************************************************************************)
(* SpecH3: the worker spawned for one HTTP/3 request stream, over what the *)
(* client sent and what each call on the stream returns.                   *)
(***************************************************************************)
InitH3 ==
    /\ IdleRoute
    /\ IdleService
    /\ IdleServer
    /\ IdleStatic
    /\ IdleHandle
    /\ IdleLock
    /\ IdleCache
    /\ IdleWsgi
    /\ IdleProxy
    /\ IdleTlsf
    /\ IdleVhc
    /\ IdlePeek
    /\ IdleWorker
    /\ h3 \in {[NoH3 EXCEPT !.in = in, !.pc = "resolve"] : in \in H3Inputs}
    /\ op = Op("new")

H3Frame ==
    /\ UNCHANGED <<routeVars, serviceVars, serverVars, staticVars, handleVars>>
    /\ UNCHANGED <<lockVars, registryVars, cacheVars, wsgi, proxy, tlsf, vhc, peek, worker>>

\* resolver.resolve_request().await is Ok: the worker has a request and its stream.
H3Resolve ==
    /\ h3.pc = "resolve"
    /\ h3.in.resolve
    /\ h3' = [h3 EXCEPT !.pc = "route"]
    /\ op' = Op("resolve")
    /\ H3Frame

\* resolve_request() is Err: the worker ends, there is no stream.
H3ResolveError ==
    /\ h3.pc = "resolve"
    /\ ~h3.in.resolve
    /\ h3' = [h3 EXCEPT !.pc = "no_stream"]
    /\ op' = Op("resolve_error")
    /\ H3Frame

\* The Host lookup and execute: a response to send, the error branch, or
\* the panic of unwrap, which ends the worker where it stands.
H3Route ==
    LET r == h3_route(h3.in) IN
    /\ h3.pc = "route"
    /\ h3' = [h3 EXCEPT !.pc = CASE r.kind = "ok" -> "send_response"
                                 [] r.kind = "err" -> "finish"
                                 [] OTHER -> "panicked",
                        !.status = r.status]
    /\ op' = OpInfo("route", 0, r.kind)
    /\ H3Frame

\* stream.send_response(resp).await: Ok or Err, logged either way.
H3SendResponse ==
    /\ h3.pc = "send_response"
    /\ h3' = [h3 EXCEPT !.pc = "send_data",
                        !.calls = Append(@, StreamCall("send_response", h3.in.send_response))]
    /\ op' = Op("send_response")
    /\ H3Frame

\* body.collect() and `let _ = stream.send_data(buf).await`.
H3SendData ==
    /\ h3.pc = "send_data"
    /\ h3' = [h3 EXCEPT !.pc = "finish",
                        !.calls = Append(@, StreamCall("send_data", h3.in.send_data))]
    /\ op' = Op("send_data")
    /\ H3Frame

\* `let _ = stream.finish().await`, and the worker ends.
H3Finish ==
    /\ h3.pc = "finish"
    /\ h3' = [h3 EXCEPT !.pc = "end",
                        !.calls = Append(@, StreamCall("finish", h3.in.finish))]
    /\ op' = Op("finish")
    /\ H3Frame

NextH3 ==
    \/ H3Resolve
    \/ H3ResolveError
    \/ H3Route
    \/ H3SendResponse
    \/ H3SendData
    \/ H3Finish

SpecH3 == InitH3 /\ [][NextH3]_vars

(***************************************************************************)
(* SpecSni: one TCP listener is started and virtual hosts are added to the *)
(* shared registry before and after that; clients connect in cleartext and *)
(* with TLS, naming a host by SNI or in the request.                       *)
(***************************************************************************)
SniRequests ==
    { [uri_authority |-> Some(h), host_header |-> NoneStr, path |-> <<"/">>] :
          h \in {"a.test", "b.test"} }

InitSni ==
    /\ IdleRoute
    /\ svc_conn = NoConn /\ svc_req = NoRequest /\ svc_resp = NoSvcResp
    /\ virtual_hosts = add_virtual_host(EmptyRegistry, HostA)
    /\ config = <<Listener("conn_tcp", 8080, TRUE)>>
    /\ listeners = <<>>
    /\ task = [i \in ListenerIds |-> FALSE]
    /\ loop = [i \in ListenerIds |-> LoopOff]
    /\ tls_config = [i \in ListenerIds |-> {}]
    /\ conns = [c \in ConnIds |-> IdleConn]
    /\ facade = "new"
    /\ IdleStatic
    /\ IdleHandle
    /\ IdleLock
    /\ IdleIface
    /\ IdleCache
    /\ op = Op("new")

\* add_virtual_host(vh) on the registry the listeners share, at any time.
SniAdd ==
    /\ <<HostB.hostname, HostB.port>> \notin DOMAIN virtual_hosts
    /\ virtual_hosts' = add_virtual_host(virtual_hosts, HostB)
    /\ op' = Op("add_virtual_host")
    /\ UNCHANGED <<svc_conn, svc_req, svc_resp>>
    /\ UNCHANGED <<routeVars, serverVars, staticVars, handleVars, ifaceVars, lockVars, registryVars, cacheVars>>

\* A worker's codec reads a request naming a host and runs the service
\* function on the registry as it is now.
SniServe ==
    \E c \in ConnIds, req \in SniRequests :
        /\ conns[c].st = "serving"
        /\ \E resp \in service_fn(virtual_hosts, ConnCtx(c), req) :
              conns' = SetConn(c, [conns[c] EXCEPT !.req = req, !.resp = resp])
        /\ op' = OpOn("serve", conns[c].l, c)
        /\ UNCHANGED <<config, listeners, task, loop, tls_config, facade>>
        /\ UNCHANGED <<routeVars, serviceVars, staticVars, handleVars, ifaceVars, lockVars, registryVars, cacheVars>>

NextSni ==
    \/ FacadeStart
    \/ FacadeStop
    \/ SniAdd
    \/ Connect
    \/ Accept
    \/ PeekDone
    \/ HandshakeOk
    \/ HandshakeError
    \/ SniServe
    \/ ClientClose

SpecSni == InitSni /\ [][NextSni]_vars

\* The request just handled passed the path's auth check (or there is none).
Authorized(req) == static_config.auth => authenticate(req.authorization)
IsFile(t) == t \in site

\* C11: a GET with Range: bytes=start-end, 0 <= start <= end < size(F),
\* start = end included, is answered 206 with end - start + 1 body bytes.
C11_RangeReturnsPartialContent ==
    (/\ op.name = "handle"
     /\ h_req.method = "GET"
     /\ Authorized(h_req)
     /\ IsFile(h_req.target)
     /\ h_req.range \in Ranges /\ h_req.range.unit = "bytes"
     /\ h_req.range.start <= h_req.range.end
     /\ h_req.range.end < Len(SiteFiles[h_req.target]))
    => /\ h_resp.kind = "ok"
       /\ h_resp.status = 206
       /\ Len(h_resp.body) = h_req.range.end - h_req.range.start + 1

\* C12: a GET with a well-formed Range whose start > end or start >= size(F)
\* is answered 416 with an empty body.
C12_RangeNotSatisfiable ==
    (/\ op.name = "handle"
     /\ h_req.method = "GET"
     /\ Authorized(h_req)
     /\ IsFile(h_req.target)
     /\ h_req.range \in Ranges /\ h_req.range.unit = "bytes"
     /\ \/ h_req.range.start > h_req.range.end
        \/ h_req.range.start >= Len(SiteFiles[h_req.target]))
    => /\ h_resp.kind = "ok"
       /\ h_resp.status = 416
       /\ h_resp.body = <<>>

\* The first entry of index_files that exists in directory dir, as a path
\* ("": none).
FirstExisting(dir) ==
    LET found == {i \in 1..Len(static_config.index_files) :
                     join(dir, static_config.index_files[i]) \in site}
    IN  IF found = {} THEN "" ELSE join(dir, static_config.index_files[Min(found)])

\* The file a target stands for: itself when it is a file; with index files
\* configured, the index file of the directory it names, or of the static
\* root when it names nothing and its tail does not match the extension
\* regex ("": none, the answer is 404).
ResolvedFile(t) ==
    IF IsFile(t) THEN t
    ELSE IF static_config.index_files = <<>> THEN ""
    ELSE IF is_dir(t) THEN FirstExisting(t)
    ELSE IF ~ext_regex_is_match(t) THEN FirstExisting("")
    ELSE ""

\* C13: a HEAD for a target that resolves to a file is answered 200 with an
\* empty body and the headers a GET for the same target gets.
C13_HeadMatchesGet ==
    [][(/\ op'.name = "handle"
        /\ h_req'.method = "HEAD"
        /\ Authorized(h_req')
        /\ ResolvedFile(h_req'.target) # "")
       => LET get == handle(site, static_config, Kernel, file_cache,
                            [h_req' EXCEPT !.method = "GET"]).resp
          IN  /\ h_resp'.kind = "ok"
              /\ h_resp'.status = 200
              /\ h_resp'.body = <<>>
              /\ h_resp'.headers = get.headers]_vars

\* C14: with index_files configured, a directory is answered with the first
\* configured index file that exists in it, a missing target whose tail
\* does not match the extension regex with the first that exists in the
\* static root, and 404 is the answer when there is none and for a missing
\* target whose tail matches the regex.
C14_IndexFileResolution ==
    (/\ op.name = "handle"
     /\ h_req.method = "GET"
     /\ h_req.range = NoRange
     /\ Authorized(h_req)
     /\ static_config.index_files # <<>>
     /\ ~IsFile(h_req.target))
    => IF ResolvedFile(h_req.target) # ""
       THEN /\ h_resp.kind = "ok"
            /\ h_resp.status = 200
            /\ h_resp.file = ResolvedFile(h_req.target)
            /\ h_resp.body = SiteFiles[ResolvedFile(h_req.target)]
       ELSE /\ h_resp.kind = "ok"
            /\ h_resp.status = 404

\* C15: with auth configured, a request that does not authenticate is
\* answered 401, and handling it opens no file, leaves the descriptor cache
\* as it was and returns no content and no metadata.
C15_AuthBeforeAnything ==
    [][(/\ op'.name = "handle"
        /\ static_config.auth
        /\ ~authenticate(h_req'.authorization))
       => /\ h_resp'.kind = "ok"
          /\ h_resp'.status = 401
          /\ h_resp'.body = <<>>
          /\ h_resp'.headers = NoHeaders
          /\ h_resp'.file = ""
          /\ file_cache' = file_cache
          /\ fd_table' = fd_table
          /\ ofd' = ofd]_vars

\* C16: whatever the handler returns, the request is answered with an HTTP
\* response and the connection stays usable: 404 for a file that is not
\* found, 401 for failed auth.
C16_ErrorsBecomeResponses ==
    op.name = "handle" =>
        /\ h_resp.kind = "ok"
        /\ h_resp.conn = "open"
        /\ ~Authorized(h_req) => h_resp.status = 401
        /\ (Authorized(h_req) /\ ResolvedFile(h_req.target) = "") => h_resp.status = 404

(***************************************************************************)
(* C17                                                                     *)
(***************************************************************************)
\* C17: when no registered path matches the request path, route returns
\* Ok with status 404 and body "Not Found", no handler is invoked and no
\* error is returned.
C17_NoMatchIsOk404 ==
    (op.name = "route" /\ PrefixCandidates(paths, route_req) = {})
        => /\ route_resp.ok
           /\ route_resp.status = 404
           /\ route_resp.body = "Not Found"
           /\ route_resp.handler = None

\* A virtual host with registered paths routed a request none of them
\* matches.
C17_Witness ==
    /\ op.name = "route"
    /\ DOMAIN paths # {}
    /\ PrefixCandidates(paths, route_req) = {}
    /\ route_resp = RouteNotFound

(***************************************************************************)
(* C18                                                                     *)
(***************************************************************************)
\* C18: a request holds the registry read lock for the lookup only, not
\* while its handler runs, so a waiting add_virtual_host waits for lookups
\* alone and never for a handler to finish.
C18_ReadLockForLookupOnly ==
    /\ \A r \in ReqIds : reqs[r].pc = "handler" => r \notin lock.readers
    /\ adder.pc = "waiting" =>
           \A r \in lock.readers : reqs[r].pc = "lookup"

(***************************************************************************)
(* C19                                                                     *)
(***************************************************************************)
KeyOf(vh) == <<vh.hostname, vh.port>>
AddedKeys == {KeyOf(added[i]) : i \in 1..Len(added)}
LastAdded(k) ==
    LET at == {i \in 1..Len(added) : KeyOf(added[i]) = k}
    IN  added[CHOOSE i \in at : \A j \in at : j <= i]

C20_CacheNeverExceedsCapacity ==
    /\ [](Len(lru) <= lru_cap /\ Cardinality(Keys(lru)) = Len(lru))
    /\ [][(op'.name = "cache_file" /\ lru_req'.outcome = "inserted"
              /\ Len(lru) = lru_cap)
           => /\ Keys(lru') = (Keys(lru) \ {lru[Len(lru)]}) \cup {lru_req'.path}
              /\ \A i \in 1..(Len(lru) - 1) : lru'[i + 1] = lru[i]]_vars

\* A full cache of capacity two or more took a new path and evicted one
\* entry.
C20_Witness ==
    /\ op.name = "cache_file"
    /\ lru_cap >= 2
    /\ lru_req.outcome = "inserted"
    /\ Cardinality(lru_req.evicted) = 1
    /\ Len(lru) = lru_cap
    /\ lru[1] = lru_req.path

(***************************************************************************)
(* C21                                                                     *)
(***************************************************************************)
\* The responses that hold a duplicate handed out for path p.
LiveDuplicates(rs, p) == {r \in RespIds : rs[r].st = "streaming" /\ rs[r].path = p}

\* C21: when an entry is evicted while duplicates handed out for it are
\* alive, its descriptor is still open on its file and stays open; when
\* none is alive the eviction leaves it closed; and at no time is a
\* descriptor open that is neither a cache entry's nor a live duplicate.
C21_EvictedClosedAfterLastDuplicate ==
    /\ [](\A n \in Fds : fd_table[n] # 0 =>
             \/ \E r \in RespIds : resps[r].st = "streaming" /\ resps[r].fd = n
             \/ \E p \in FilePaths : file_cache[p] = n)
    /\ [][op'.name = "cache_file" =>
             \A p \in lru_req'.evicted :
                 LET n == file_cache[p] IN
                 IF LiveDuplicates(resps, p) # {}
                 THEN /\ fd_table[n] # 0 /\ ofd[fd_table[n]].obj = p
                      /\ fd_table'[n] # 0 /\ ofd'[fd_table'[n]].obj = p
                 ELSE fd_table'[n] = 0]_vars

\* The header list as start_response received it, names in the case-less
\* form in which HTTP header names are compared.
PassedHeaders(app) ==
    [i \in 1..Len(app.headers) |->
        <<HeaderName_from_bytes(app.headers[i][1]).val, app.headers[i][2]>>]

RECURSIVE ConcatChunks(_)
ConcatChunks(chunks) ==
    IF chunks = <<>> THEN <<>> ELSE Head(chunks) \o ConcatChunks(Tail(chunks))

\* C22: a WSGI request yields a Response exactly when the application call
\* and the start_response channel both succeed with a valid status line;
\* the Response then has the status line's code and the header list that
\* was passed to start_response; every failure yields an error and nothing
\* else.
C22_WsgiResponseOnlyWhenBothSucceed ==
    op.name = "wsgi" =>
        LET app == wsgi.app
            token == split_whitespace_next(app.status)
            succeeds == /\ app.raises = "no"
                        /\ app.calls_start
                        /\ token.some
                        /\ parse_StatusCode(token.val) # 0
        IN  IF succeeds
            THEN /\ wsgi.resp.kind = "ok"
                 /\ wsgi.resp.status = parse_StatusCode(token.val)
                 /\ wsgi.resp.headers = PassedHeaders(app)
            ELSE wsgi.resp.kind = "err"

\* C23: the body of a WSGI Response is the concatenation, in order, of
\* every chunk the application's iterator yielded; no chunk, empty body.
C23_WsgiBodyIsAllChunks ==
    (op.name = "wsgi" /\ wsgi.resp.kind = "ok") =>
        wsgi.resp.body = ConcatChunks(wsgi.app.chunks)

C25_ProxyPassesThrough ==
    (op.name = "proxy" /\ DeboaRequest_at_ok(proxy.cfg.target) /\ proxy.up.ok) =>
        /\ proxy.seen.method = proxy.req.method
        /\ proxy.seen.headers = proxy.req.headers
        /\ proxy.seen.body = proxy.req.body
        /\ proxy.resp.kind = "ok"
        /\ proxy.resp.status = proxy.up.status
        /\ proxy.resp.headers = proxy.up.headers

Unparsable(hosts) == {h \in DOMAIN hosts : hosts[h] \notin {"none", "ok"}}

\* C26: create_tls_config returns Ok(Some(config)) for every registry whose
\* secured hosts all have parsable certificates and keys (a registry with
\* no security block at all and an empty ALPN list included), and
\* config.alpn_protocols is the ALPN list passed in, in the same order.
C26_TlsConfigBuilt ==
    (op.name \in {"create_tls_config", "listen"} /\ Unparsable(tlsf.hosts) = {}) =>
        /\ tlsf.result.kind = "ok"
        /\ tlsf.result.alpn_protocols = tlsf.alpn

\* The factory has answered a two-token ALPN list in each order, an empty
\* list, and a registry without any security block.
C26_Witness ==
    /\ op.name = "create_tls_config"
    /\ tlsf.result.kind = "ok"
    /\ tlsf.alpn = <<"h2", "http/1.1">>
    /\ tlsf.result.alpn_protocols = <<"h2", "http/1.1">>
    /\ \A h \in DOMAIN tlsf.hosts : tlsf.hosts[h] = "none"
    /\ DOMAIN tlsf.hosts # {}

\* C27: when the key or the certificate of some secured host does not
\* parse, create_tls_config fails with a Start/Tls error naming the failed
\* parse of one such host, no configuration is produced, and the listener
\* that asked for it holds no task and no bound socket.
C27_UnparsableKeyFailsStart ==
    (op.name \in {"create_tls_config", "listen"} /\ Unparsable(tlsf.hosts) # {}) =>
        /\ tlsf.result.kind = "err"
        /\ tlsf.result.alpn_protocols = <<>>
        /\ \E h \in Unparsable(tlsf.hosts) :
              tlsf.result.msg = IF tlsf.hosts[h] = "bad_key"
                                THEN "Failed to parse private key"
                                ELSE "Failed to parse certificate"
        /\ op.name = "listen" =>
              /\ ~tlsf.listener.task
              /\ ~tlsf.listener.bound
              /\ tlsf.listener.err = tlsf.result.msg

\* A listener was started over a registry whose only secured host has a key
\* that does not parse, beside a host without a security block.
C27_Witness ==
    /\ op.name = "listen"
    /\ DOMAIN tlsf.hosts = TlsHostNames
    /\ tlsf.hosts["a.test"] = "bad_key"
    /\ tlsf.hosts["b.test"] = "none"
    /\ tlsf.listener.started
    /\ tlsf.listener.err = "Failed to parse private key"

StoredListeners == {listeners[k] : k \in 1..Len(listeners)}

\* C28: stopping is idempotent. When a stop returns, every stored listener
\* has given up its task, no accept loop of theirs is live and no
\* connection of theirs is still being handled; a stop called on a server
\* already stopped returns Ok and changes nothing.
C28_StopIdempotent ==
    [][op'.name = "stop" =>
          /\ \A i \in StoredListeners : ~task'[i] /\ ~Live(loop'[i])
          /\ \A c \in ConnIds : conns[c].l \in StoredListeners => conns'[c] = IdleConn
          /\ facade = "stopped" =>
                UNCHANGED <<config, listeners, task, loop, tls_config, conns>>]_vars

\* A server that was started has been stopped and then stopped again.
C28_Witness ==
    /\ op.name = "stop" /\ op.info = "again"
    /\ listeners # <<>>
    /\ facade = "stopped"

\* What every reading of the claim about build shares: an empty hostname is
\* refused first, and a configuration that was built has a non-empty
\* hostname, a root directory that exists, and the hostname and port that
\* were set.
BuildCommon ==
    /\ vhc.builder.hostname = "" =>
          vhc.result = BuildErr("hostname is not provided")
    /\ vhc.result.kind = "ok" =>
          /\ vhc.result.hostname # ""
          /\ Path_exists(vhc.disk, vhc.result.root_directory)
          /\ vhc.result.hostname = vhc.builder.hostname
          /\ vhc.result.port = vhc.builder.port

\* C29 as stated: build fails with "hostname is not provided" when the
\* hostname is empty, this check first, and with "root_directory does not
\* exist: <dir>" when the root directory is not on disk; a built
\* configuration has a non-empty hostname, an existing root directory and
\* the hostname and port that were set.
C29_BuildChecks_AsStated ==
    op.name = "build" =>
        /\ BuildCommon
        /\ (vhc.builder.hostname # "" /\ ~Path_exists(vhc.disk, vhc.builder.root_directory)) =>
              vhc.result = BuildErr("root_directory does not exist: "
                                        \o vhc.builder.root_directory)

\* C29 amended: as stated, except that an empty root directory is refused
\* with "root_directory is not provided", and "root_directory does not
\* exist: <dir>" is the error for a root directory that is named and not
\* on disk.
C29_BuildChecks ==
    op.name = "build" =>
        /\ BuildCommon
        /\ (vhc.builder.hostname # "" /\ vhc.builder.root_directory = "") =>
              vhc.result = BuildErr("root_directory is not provided")
        /\ (/\ vhc.builder.hostname # ""
            /\ vhc.builder.root_directory # ""
            /\ ~Path_exists(vhc.disk, vhc.builder.root_directory)) =>
              vhc.result = BuildErr("root_directory does not exist: "
                                        \o vhc.builder.root_directory)

\* A builder with a hostname and an empty root directory has been built.
C29_Witness ==
    /\ op.name = "build"
    /\ vhc.builder.hostname = "example.com"
    /\ vhc.builder.root_directory = ""
    /\ vhc.result.msg = "root_directory is not provided"

\* C30: a new TCP connection is classified as TLS exactly when its first
\* byte is 0x16 and its second 0x03, and as cleartext otherwise; and once
\* two bytes have arrived the classification can be taken at once, without
\* any further byte from the client.
C30_TwoBytesDecide ==
    /\ peek.st = "tls" => (peek.rx[1] = 22 /\ peek.rx[2] = 3)
    /\ peek.st = "clear" => ~(peek.rx[1] = 22 /\ peek.rx[2] = 3)
    /\ (peek.st = "peeking" /\ Len(peek.rx) >= 2) => ENABLED PeekClassify

C32_CachedDescriptorOpen ==
    \A path \in FilePaths :
        file_cache[path] # 0 =>
            /\ fd_table[file_cache[path]] # 0
            /\ ofd[fd_table[file_cache[path]]].obj = path

\* C33: two GETs for the same file that overlap in time each receive the
\* complete file: neither fails, what each has received so far is the
\* beginning of the file and at its end the whole file, and the descriptors
\* the two bodies read through do not share one read position.
C33_OverlappingGetsIndependent ==
    \A r1 \in RespIds, r2 \in RespIds :
        (/\ r1 # r2
         /\ resps[r1].st # "idle"
         /\ resps[r2].st # "idle"
         /\ resps[r1].path = resps[r2].path)
        => /\ resps[r1].st # "error"
           /\ IsPrefix(resps[r1].body, Files[resps[r1].path])
           /\ resps[r1].st = "done" => resps[r1].body = Files[resps[r1].path]
           /\ (resps[r1].st = "streaming" /\ resps[r2].st = "streaming")
                 => fd_table[resps[r1].fd] # fd_table[resps[r2].fd]

\* C34: a client that has connected and then stalls, with its peek
\* unfinished or its TLS handshake incomplete, does not keep the listener
\* from accepting others: a connection waiting in the backlog of a live
\* listener finds that listener's loop at accept().
C34_StalledClientDoesNotBlock ==
    \A c \in ConnIds :
        (conns[c].st = "queued" /\ Live(loop[conns[c].l]))
            => loop[conns[c].l].st = "accept"

\* C35: each WSGI request works on its own copy of the worker's environ:
\* the worker's dict stays what WsgiWorker::new made it, without any
\* per-request key, and what an application reads from its environ is the
\* method and path of its own request.
C35_EnvironPerRequest ==
    /\ [](worker.env = WsgiWorker_new)
    /\ [][op'.name = "environ" =>
             op'.info = worker.reqs[op'.c].req.method \o " " \o worker.reqs[op'.c].req.path]_vars

\* C36: start_response delivers at most one (status, headers) message per
\* request: the first call puts its arguments on the channel; a later call
\* on the same request leaves the channel and the sender as they are; every
\* call returns normally, the application going on.
C36_StartResponseOnce ==
    [][op'.name = "start_response" =>
          LET q == worker.reqs[op'.c]
              n == worker'.reqs[op'.c]
          IN  /\ q.calls = 0 => n.chan = Some(op'.info) /\ n.sender = "taken"
              /\ q.calls > 0 => n.chan = q.chan /\ n.sender = q.sender
              /\ n.pc = "app"]_vars

\* A second start_response call, with another status than the first, has
\* returned.
C36_Witness ==
    /\ op.name = "start_response"
    /\ worker.reqs[op.c].calls = 2
    /\ worker.reqs[op.c].chan.val # op.info

\* C37: handle always completes: once the application has returned or
\* raised, the wait on the channel can end, with the message or, when
\* start_response was never called, with the error of a dropped sender.
C37_HandleCompletes ==
    \A r \in WReqIds : worker.reqs[r].pc = "await" => rx_ready(worker.reqs[r])

\* The calls made on the stream so far, by name.
H3CallNames == [i \in 1..Len(h3.calls) |-> h3.calls[i].call]

\* C38: on every HTTP/3 stream that resolved to a request the worker sends
\* the head, then the body data, then finish(): what it has called so far
\* is a beginning of that order (or of a lone finish() after a route
\* error), and once the worker is over finish() has been called exactly
\* once and last, whether the route failed or sending the head failed.
C38_HeadDataFinish ==
    /\ \/ IsPrefix(H3CallNames, <<"send_response", "send_data", "finish">>)
       \/ IsPrefix(H3CallNames, <<"finish">>)
    /\ h3.pc \in {"end", "panicked"} =>
          /\ Len(h3.calls) >= 1
          /\ h3.calls[Len(h3.calls)].call = "finish"
          /\ Cardinality({i \in 1..Len(h3.calls) : h3.calls[i].call = "finish"}) = 1

\* C39: the facade's start() reports the first listener failure in
\* configuration order, starts no listener from the failing one on, and on
\* an error leaves the stored listener list exactly as it was; a stop()
\* therefore cancels only listeners stored by a successful start.
C39_StartAllOrNothing ==
    [][/\ op'.name = "start_err" =>
             /\ listeners' = listeners
             /\ facade' = facade
             /\ \A j \in 1..(op'.l - 1) :
                   /\ ~PortTaken(Transport(config[j].driver), config[j].port)
                   /\ <<Transport(config[j].driver), config[j].port>>
                         # <<Transport(config[op'.l].driver), config[op'.l].port>>
             /\ \A j \in ListenerIds :
                   j >= op'.l => task'[j] = task[j] /\ loop'[j] = loop[j]
       /\ op'.name = "stop" =>
             \A i \in ListenerIds : (task[i] /\ ~task'[i]) => i \in StoredListeners]_vars

\* A start has failed at its second listener while the list of an earlier
\* successful start was stored.
C39_Witness ==
    /\ op.name = "start_err" /\ op.l = 2
    /\ listeners # <<>>

\* C40: a listener's TLS configuration is built once, from the registry as
\* it is when the listener starts, and reused for every TLS connection:
\* only a successful start changes it, and to the secured hosts of the
\* registry at that moment; adding a host leaves it as it is; a handshake
\* succeeds only for a name in it; and a request served afterwards finds
\* every host the registry holds by then.
C40_TlsConfigFixedAtStart ==
    [][/\ tls_config' # tls_config =>
             /\ op'.name = "start_ok"
             /\ \A i \in 1..Len(config) : tls_config'[i] = SecureNames(virtual_hosts)
       /\ op'.name = "add_virtual_host" => tls_config' = tls_config
       /\ op'.name = "handshake_ok" =>
             /\ conns[op'.c].sni \in tls_config[op'.l]
             /\ tls_config' = tls_config
       /\ op'.name = "serve" =>
             LET req == conns'[op'.c].req
                 k == <<req.uri_authority.val, config[op'.l].port>>
             IN  k \in DOMAIN virtual_hosts => conns'[op'.c].resp.served_by = k]_vars

\* A secured host added after the start has just been found by a request's
\* lookup, while the listener's TLS configuration has no certificate for it.
C40_Witness ==
    /\ op.name = "serve"
    /\ conns[op.c].resp.served_by = <<"b.test", 8080>>
    /\ facade = "started"
    /\ "b.test" \notin tls_config[1]
    /\ "b.test" \in SecureNames(virtual_hosts)

====
